---- MODULE Spec2Model ----
(***************************************************************************)
(* Lite-RAG-App: the retrieval / generation / citation pipeline.           *)
(*                                                                         *)
(*   SpecCite      RAGController.extract_citations on generated texts      *)
(*   SpecRag       the steps of generate_with_rag after retrieval          *)
(*   SpecSplit     process_file splitting one text into chunks             *)
(*   SpecLLM       one CohereProvider instance, called one call at a time  *)
(*   SpecProvider  the QdrantProvider operations, called one at a time     *)
(*   Spec          the index and query routes running concurrently         *)
(*   SpecTurn      the index, query and RAG routes, one request at a time  *)
(*   SpecSeq       VectorController.index_vectors, one call after another  *)
(*   SpecBatch     index_vectors on chunk lists of more than one batch     *)
(*   SpecReset     index_vectors(reset=True) on an index holding points    *)
(*   SpecName      the index operations, the embedding model changing      *)
(*   SpecDocs      the process and refresh routes running concurrently     *)
(*   SpecRefresh   refresh requests in turn, files and writes failing      *)
(*   SpecAssets    the asset delete routes, one request at a time          *)
(*   SpecLife      index, process, refresh and delete requests in turn     *)
(***************************************************************************)
EXTENDS Integers, Sequences, FiniteSets, TLC

VARIABLES
    written,            \* the markers and filler the generation model wrote
    response,           \* extract_citations: the generated text, as characters
    context_entries,    \* extract_citations: the context list
    ordered_citations,  \* extract_citations: the returned list
    cite_pc,            \* "call" before extract_citations ran, "done" after
    relevant_vectors,   \* generate_with_rag: the ranked chunks retrieved
    templates,          \* the keys the "rag" template group resolves
    query_prompt,       \* generate_with_rag: labelled context entries and footer
    rag_pc,             \* generate_with_rag: the next step of the request
    rag_signal,         \* generate_with_rag: the answer given, "" while running
    generation_llm,     \* the generation provider: its client and model id
    llm_provider,       \* a BaseLLMProvider instance: client, model ids, size
    llm_call,           \* the last call that instance made of its client
    split_call,         \* a call of the text splitter: its input and its chunks
    client,             \* QdrantProvider.client: TRUE from connect() to disconnect()
    collections,        \* the Qdrant storage: what every index name holds
    prov_call,          \* the last QdrantProvider call made and what it returned
    embedding_size,     \* embedding_llm.embedding_size, set at startup
    projects,           \* the project records stored
    chunk_store,        \* the chunks stored for every project, in chunk order
    assets,             \* the asset records stored for every project
    files,              \* the files in every project's folder
    req                 \* the requests in flight: one record per request slot

citeVars == <<written, response, context_entries, ordered_citations, cite_pc>>

ragVars == <<relevant_vectors, templates, query_prompt, rag_pc, rag_signal,
             generation_llm, llm_provider, llm_call>>

provVars == <<client, collections, prov_call>>

appVars == <<embedding_size, projects, chunk_store, assets, files, req>>

vars == <<citeVars, ragVars, split_call, provVars, appVars>>

(***************************************************************************)
(* Bounds                                                                  *)
(***************************************************************************)
MaxParts == 3
MaxContext == 3
MaxRagParts == 2
MaxRetrieved == 3
MaxPoints == 2
MaxBatch == 2
MaxReq == 2
MaxChunks == 2
MaxIndexed == 4
MaxBatches == 2
MaxDimension == 25

(***************************************************************************)
(* Generic helpers                                                         *)
(***************************************************************************)
RECURSIVE SeqsUpTo(_, _)
SeqsUpTo(S, n) ==
    IF n = 0 THEN {<<>>}
    ELSE LET shorter == SeqsUpTo(S, n - 1)
         IN shorter \cup {Append(s, x) : s \in shorter, x \in S}

Range(s) == {s[i] : i \in 1..Len(s)}

(***************************************************************************)
(* Index names, and the parts of the state a run leaves unused             *)
(***************************************************************************)
EmbeddingSizes == {2, 3}
ProjectIds == {"p1", "p2"}

Digits == <<"0", "1", "2", "3", "4", "5", "6", "7", "8", "9">>

\* str() of an int that is not negative: its decimal digits
RECURSIVE IntText(_)
IntText(n) ==
    IF n < 10 THEN <<Digits[n + 1]>>
    ELSE IntText(n \div 10) \o <<Digits[(n % 10) + 1]>>

\* str() of a project's UUID: hexadecimal digits, as many for every UUID
UUIDText(project_id) ==
    IF project_id = "p1" THEN <<"1", "a">> ELSE <<"2", "1">>

\* the name made of a project id only
_construct_index_name_without_size(project_id, size) ==
    <<"i", "n", "d", "e", "x", "_">> \o UUIDText(project_id)

\* VectorController._construct_index_name: f"index_{embedding_size}_{project_id}"
_construct_index_name(project_id, size) ==
    <<"i", "n", "d", "e", "x", "_">> \o IntText(size) \o <<"_">>
        \o UUIDText(project_id)

IndexNames ==
    {_construct_index_name(p, e) : p \in ProjectIds, e \in EmbeddingSizes}

NoCollection == [exists |-> FALSE]

NoCall ==
    [op |-> "none", dims |-> 0, replace |-> FALSE, existed |-> FALSE, held |-> 0,
     texts |-> 0, vectors |-> 0, metadata |-> -1, ret |-> "None"]

\* extract_citations is not part of the run
CiteUnused ==
    /\ written = <<>>
    /\ response = <<>>
    /\ context_entries = <<>>
    /\ ordered_citations = <<>>
    /\ cite_pc = "idle"

\* BaseLLMProvider.__init__: no model and no embedding size set; an optional
\* value is <<>> for None and <<v>> for v
NoProvider ==
    [client |-> FALSE, embedding_model_id |-> "None", embedding_size |-> <<>>,
     generation_model_id |-> "None"]

\* the provider has called nothing of its client
NoClientCall == [op |-> "none"]

\* the text splitter was not called
SplitUnused ==
    split_call = [text |-> <<>>, chunk_size |-> 1, chunk_overlap |-> 0, pc |-> "idle",
                  chunks |-> <<>>]

\* no RAG request is running
RagIdle ==
    /\ relevant_vectors = <<>>
    /\ templates = {}
    /\ query_prompt = <<>>
    /\ rag_pc = "idle"
    /\ rag_signal = ""
    /\ generation_llm = [client |-> TRUE, generation_model_id |-> "None"]
    /\ llm_provider = NoProvider
    /\ llm_call = NoClientCall

NoReq ==
    [kind |-> "none", pc |-> "idle", project |-> "p1", reset |-> FALSE,
     count |-> 0, chunks |-> <<>>, vectors |-> <<>>, i |-> 0,
     inserted |-> "None", wrote |-> FALSE, signal |-> "",
     file_id |-> "a1", chunk_size |-> 1, todo |-> <<>>, results |-> <<>>,
     calls |-> <<>>]

Slots == 1..MaxReq

\* no route is part of the run
AppUnused ==
    /\ embedding_size = 2
    /\ projects = {}
    /\ chunk_store = [p \in ProjectIds |-> <<>>]
    /\ assets = [p \in ProjectIds |-> {}]
    /\ files = [p \in ProjectIds |-> {}]
    /\ req = [t \in Slots |-> NoReq]

\* the provider is not part of the run
ProviderUnused ==
    /\ client = FALSE
    /\ collections = [n \in IndexNames |-> NoCollection]
    /\ prov_call = NoCall

(***************************************************************************)
(* Characters                                                              *)
(***************************************************************************)
UpperCase == <<"A", "B", "C", "D", "E", "F", "G", "H", "I", "J", "K", "L", "M",
               "N", "O", "P", "Q", "R", "S", "T", "U", "V", "W", "X", "Y", "Z">>
LowerCase == <<"a", "b", "c", "d", "e", "f", "g", "h", "i", "j", "k", "l", "m",
               "n", "o", "p", "q", "r", "s", "t", "u", "v", "w", "x", "y", "z">>

\* re.IGNORECASE: letters compare by their lower-case form
Lower(c) ==
    IF \E i \in 1..26 : UpperCase[i] = c
    THEN LowerCase[CHOOSE i \in 1..26 : UpperCase[i] = c]
    ELSE c

\* the regex class \d
IsDigit(c) == \E i \in 1..10 : Digits[i] = c

DigitValue(c) == (CHOOSE i \in 1..10 : Digits[i] = c) - 1

\* the regex class \s, and the characters str.strip() removes
IsSpace(c) == c \in {" ", "\n", "\t", "\r"}

(***************************************************************************)
(* RAGController.extract_citations                                         *)
(***************************************************************************)
\* the text each pattern requires between "[" and the index list
citation_patterns == <<
    <<"r", "e", "f", "e", "r", "e", "n", "c", "e", ":">>,
    <<"r", "e", "f", ":">>,
    <<"s", "o", "u", "r", "c", "e", ":">>,
    <<"d", "o", "c", ":">>,
    <<>>,
    <<"r", "e", "f", "e", "r", "e", "n", "c", "e", "s", ":">>,
    <<"s", "o", "u", "r", "c", "e", "s", ":">>,
    <<"d", "o", "c", "s", ":">> >>

\* \s* from q: the first place that is not white space
RECURSIVE SkipSpaces(_, _)
SkipSpaces(t, q) ==
    IF q <= Len(t) /\ IsSpace(t[q]) THEN SkipSpaces(t, q + 1) ELSE q

\* \d* from q: the first place that is not a digit
RECURSIVE SkipDigits(_, _)
SkipDigits(t, q) ==
    IF q <= Len(t) /\ IsDigit(t[q]) THEN SkipDigits(t, q + 1) ELSE q

\* (?:\s*,\s*\d+)* from r: the place after the last repetition that matches
RECURSIVE SkipMoreIndices(_, _)
SkipMoreIndices(t, r) ==
    LET s == SkipSpaces(t, r)
    IN  IF s <= Len(t) /\ t[s] = ","
        THEN LET s2 == SkipSpaces(t, s + 1)
                 t2 == SkipDigits(t, s2)
             IN  IF t2 > s2 THEN SkipMoreIndices(t, t2) ELSE r
        ELSE r

\* one pattern tried at place p (1-based): <<>> when it does not match, else
\* <<start of group 1, place of the closing bracket>>
MatchAt(t, p, kw) ==
    LET n == Len(kw)
        head == /\ p + n <= Len(t)
                /\ t[p] = "["
                /\ \A i \in 1..n : Lower(t[p + i]) = kw[i]
        q == IF n > 0 THEN SkipSpaces(t, p + n + 1) ELSE p + 1
        r == SkipDigits(t, q)
        e == SkipMoreIndices(t, r)
    IN  IF head /\ r > q /\ e <= Len(t) /\ t[e] = "]"
        THEN <<q, e>>
        ELSE <<>>

\* re.finditer(pattern, response, re.IGNORECASE): the matches from left to
\* right, each search resuming after the previous match;
\* a match is <<match.start(), group 1>>
RECURSIVE FindIter(_, _, _)
FindIter(t, kw, from) ==
    IF from > Len(t) THEN <<>>
    ELSE LET m == MatchAt(t, from, kw)
         IN  IF m = <<>>
             THEN FindIter(t, kw, from + 1)
             ELSE <<[start |-> from - 1, group |-> SubSeq(t, m[1], m[2] - 1)]>>
                  \o FindIter(t, kw, m[2] + 1)

\* str.strip()
RECURSIVE StripLeft(_)
StripLeft(s) ==
    IF s # <<>> /\ IsSpace(Head(s)) THEN StripLeft(Tail(s)) ELSE s

RECURSIVE StripRight(_)
StripRight(s) ==
    IF s # <<>> /\ IsSpace(s[Len(s)])
    THEN StripRight(SubSeq(s, 1, Len(s) - 1))
    ELSE s

Strip(s) == StripRight(StripLeft(s))

\* str.split(",")
RECURSIVE SplitComma(_, _)
SplitComma(s, cur) ==
    IF s = <<>> THEN <<cur>>
    ELSE IF Head(s) = ","
         THEN <<cur>> \o SplitComma(Tail(s), <<>>)
         ELSE SplitComma(Tail(s), Append(cur, Head(s)))

\* int(): the decimal value; -1 stands for the ValueError the code catches
RECURSIVE DecimalValue(_, _)
DecimalValue(s, acc) ==
    IF s = <<>> THEN acc
    ELSE DecimalValue(Tail(s), acc * 10 + DigitValue(Head(s)))

ParseInt(s) ==
    LET body == Strip(s)
    IN  IF body = <<>> \/ \E i \in 1..Len(body) : ~IsDigit(body[i])
        THEN -1
        ELSE DecimalValue(body, 0)

\* the inner loop over indices_str.split(","): the positive indices of one
\* match, each paired with the position of the match
RECURSIVE IndicesOf(_, _)
IndicesOf(items, position) ==
    IF items = <<>> THEN <<>>
    ELSE LET index == ParseInt(Strip(Head(items)))
         IN  (IF index > 0 THEN <<[index |-> index, position |-> position]>>
              ELSE <<>>)
             \o IndicesOf(Tail(items), position)

RECURSIVE MatchesPositions(_)
MatchesPositions(matches) ==
    IF matches = <<>> THEN <<>>
    ELSE IndicesOf(SplitComma(Strip(Head(matches).group), <<>>),
                   Head(matches).start)
         \o MatchesPositions(Tail(matches))

\* citation_positions after the loop over the patterns
RECURSIVE CollectPositions(_, _)
CollectPositions(t, k) ==
    IF k > Len(citation_patterns) THEN <<>>
    ELSE MatchesPositions(FindIter(t, citation_patterns[k], 1))
         \o CollectPositions(t, k + 1)

citation_positions(t) == CollectPositions(t, 1)

cited_indices(t) ==
    LET cp == citation_positions(t) IN {cp[i].index : i \in 1..Len(cp)}

\* a sort that is not stable: equal positions change places
RECURSIVE InsertByPosition_unstable(_, _)
InsertByPosition_unstable(sorted, x) ==
    IF sorted = <<>> THEN <<x>>
    ELSE IF Head(sorted).position < x.position
         THEN <<Head(sorted)>> \o InsertByPosition_unstable(Tail(sorted), x)
         ELSE <<x>> \o sorted

\* list.sort(key=lambda x: x[1]): stable, ascending by position
RECURSIVE InsertByPosition(_, _)
InsertByPosition(sorted, x) ==
    IF sorted = <<>> THEN <<x>>
    ELSE IF Head(sorted).position <= x.position
         THEN <<Head(sorted)>> \o InsertByPosition(Tail(sorted), x)
         ELSE <<x>> \o sorted

RECURSIVE SortByPosition(_, _)
SortByPosition(s, acc) ==
    IF s = <<>> THEN acc
    ELSE SortByPosition(Tail(s), InsertByPosition(acc, Head(s)))

\* the context entries indexed from 0
index_to_entry_zero_based(entries) ==
    [i \in 0..(Len(entries) - 1) |-> entries[i + 1]]

\* index_to_entry: the 1-based index of every context entry
index_to_entry(entries) == [i \in 1..Len(entries) |-> entries[i]]

\* the pass without the seen_indices test
RECURSIVE OrderedPass_no_seen(_, _, _)
OrderedPass_no_seen(cp, entries, seen) ==
    IF cp = <<>> THEN <<>>
    ELSE LET index == Head(cp).index
         IN  IF index \in DOMAIN index_to_entry(entries)
             THEN <<index>> \o OrderedPass_no_seen(Tail(cp), entries, seen)
             ELSE OrderedPass_no_seen(Tail(cp), entries, seen)

\* the position-ordered pass: the indices emitted, in order
RECURSIVE OrderedPass(_, _, _)
OrderedPass(cp, entries, seen) ==
    IF cp = <<>> THEN <<>>
    ELSE LET index == Head(cp).index
         IN  IF index \in DOMAIN index_to_entry(entries) /\ index \notin seen
             THEN <<index>> \o OrderedPass(Tail(cp), entries, seen \cup {index})
             ELSE OrderedPass(Tail(cp), entries, seen)

\* the loop over sorted(cited_indices): the indices it appends
RECURSIVE RemainingPass(_, _, _)
RemainingPass(cited, entries, seen) ==
    IF cited = {} THEN <<>>
    ELSE LET index == CHOOSE i \in cited : \A j \in cited : i <= j
         IN  IF index \in DOMAIN index_to_entry(entries) /\ index \notin seen
             THEN <<index>>
                  \o RemainingPass(cited \ {index}, entries, seen \cup {index})
             ELSE RemainingPass(cited \ {index}, entries, seen)

\* the position-ordered pass left out: every index comes from the loop
\* over sorted(cited_indices)
emitted_indices_by_index(t, entries) ==
    RemainingPass(cited_indices(t), entries, {})

\* the indices whose entries are returned, in the order of the returned list
emitted_indices(t, entries) ==
    LET first == OrderedPass(SortByPosition(citation_positions(t), <<>>),
                             entries, {})
    IN  first \o RemainingPass(cited_indices(t), entries, Range(first))

extract_citations(t, entries) ==
    LET emitted == emitted_indices(t, entries)
    IN  [k \in 1..Len(emitted) |-> index_to_entry(entries)[emitted[k]]]

(***************************************************************************)
(* Generated texts: markers and filler, written out in characters          *)
(***************************************************************************)
\* chars: the characters; cites: the integers a reader sees cited, in order
Parts == [
    one      |-> [chars |-> <<"[", "1", "]">>, cites |-> <<1>>],
    two      |-> [chars |-> <<"[", "2", "]">>, cites |-> <<2>>],
    ref3     |-> [chars |-> <<"[", "r", "e", "f", ":", " ", "3", "]">>,
                  cites |-> <<3>>],
    doc12    |-> [chars |-> <<"[", "d", "o", "c", ":", " ", "1", ",", " ", "2", "]">>,
                  cites |-> <<1, 2>>],
    sources  |-> [chars |-> <<"[", "S", "o", "u", "r", "c", "e", "s", ":",
                              "2", " ", ",", "1", "]">>,
                  cites |-> <<2, 1>>],
    zero     |-> [chars |-> <<"[", "0", "]">>, cites |-> <<0>>],
    twelve   |-> [chars |-> <<"[", "1", "2", "]">>, cites |-> <<12>>],
    four     |-> [chars |-> <<"[", "R", "E", "F", "E", "R", "E", "N", "C", "E", ":",
                              "\n", "0", "4", "]">>,
                  cites |-> <<4>>],
    spaced   |-> [chars |-> <<"[", "1", " ", "]">>, cites |-> <<>>],
    filler   |-> [chars |-> <<"x", " ">>, cites |-> <<>>],
    see      |-> [chars |-> <<"S", "e", "e", " ">>, cites |-> <<>>],
    details  |-> [chars |-> <<" ", "f", "o", "r", " ", "d", "e", "t", "a", "i", "l",
                              "s", ".">>,
                  cites |-> <<>>],
    paris    |-> [chars |-> <<"P", "a", "r", "i", "s", " ", "i", "s", " ", "t", "h",
                              "e", " ", "c", "a", "p", "i", "t", "a", "l", " ">>,
                  cites |-> <<>>],
    museums  |-> [chars |-> <<".", " ", "I", "t", " ", "h", "a", "s", " ", "m", "u",
                              "s", "e", "u", "m", "s", " ">>,
                  cites |-> <<>>],
    stop     |-> [chars |-> <<".">>, cites |-> <<>>] ]

\* the parts texts are freely composed of
FreeParts == {"one", "two", "ref3", "doc12", "sources", "zero", "twelve",
              "four", "spaced", "filler"}

SeeTwo == <<"see", "two", "details">>
ParisMuseums == <<"paris", "one", "museums", "ref3", "stop">>
DocOneTwo == <<"doc12">>

\* the texts of the three citation scenarios
Scenarios == {SeeTwo, ParisMuseums, DocOneTwo}

RECURSIVE Render(_)
Render(w) ==
    IF w = <<>> THEN <<>> ELSE Parts[Head(w)].chars \o Render(Tail(w))

AllEntries == <<"A", "B", "C", "D", "E", "F">>

InitCite ==
    /\ written \in SeqsUpTo(FreeParts, MaxParts) \cup Scenarios
    /\ response = Render(written)
    /\ \E n \in 0..MaxContext : context_entries = SubSeq(AllEntries, 1, n)
    /\ ordered_citations = <<>>
    /\ cite_pc = "call"
    /\ RagIdle
    /\ SplitUnused
    /\ ProviderUnused
    /\ AppUnused

ExtractCitations ==
    /\ cite_pc = "call"
    /\ ordered_citations' = extract_citations(response, context_entries)
    /\ cite_pc' = "done"
    /\ UNCHANGED <<written, response, context_entries>>
    /\ UNCHANGED <<ragVars, split_call, provVars, appVars>>

NextCite == ExtractCitations

SpecCite == InitCite /\ [][NextCite]_vars

(***************************************************************************)
(* generate_with_rag, from the retrieved chunks on                         *)
(***************************************************************************)
RagTemplateKeys == {"SYSTEM_PROMPT", "CONTEXT_ENTRY", "FOOTER"}

\* RetrievedDocumentChunk: the chunks an index may return
Retrieved == {[id |-> e, text |-> <<"text of", e>>] :
                 e \in {AllEntries[i] : i \in 1..MaxRetrieved}}

\* the ranked lists a similarity search may return: no chunk twice
RankedLists ==
    {r \in SeqsUpTo(Retrieved, MaxRetrieved) :
        \A a, b \in 1..Len(r) : a # b => r[a] # r[b]}

\* the labels counted from 0
ContextLabel_from_zero(idx) == idx

\* "index": idx + 1, idx being the place enumerate() counts from 0
ContextLabel(idx) == idx + 1

\* the None that get_template returns for a key that does not resolve
NoTemplate == [key |-> "None"]

\* every key resolves
get_template_any_key(key, variables) == [key |-> key, variables |-> variables]

\* TemplateController.get_template("rag", key, variables)
get_template(key, variables) ==
    IF key \in templates THEN [key |-> key, variables |-> variables] ELSE NoTemplate

\* the CONTEXT_ENTRY of every retrieved chunk that resolves, in rank order
RECURSIVE ContextEntries(_, _)
ContextEntries(vectors, idx) ==
    IF idx >= Len(vectors) THEN <<>>
    ELSE LET entry == get_template("CONTEXT_ENTRY",
                          [index |-> ContextLabel(idx),
                           content |-> vectors[idx + 1].text])
         IN  (IF entry # NoTemplate THEN <<entry>> ELSE <<>>)
             \o ContextEntries(vectors, idx + 1)

\* the provider as startup left it: connected or not, its generation model
\* set or, when the id is not among the provider's models, left None
GenerationModels ==
    [client : BOOLEAN, generation_model_id : {"None", "command"}]

\* the None that generate returns
NoResponse == [text |-> "None"]

\* response.message.content of the provider: no item, or one item of text
ResponseContents ==
    {<<>>} \cup {<<[text |-> w]>> : w \in SeqsUpTo(FreeParts, MaxRagParts)}

InitRag ==
    /\ relevant_vectors \in RankedLists
    /\ templates \in SUBSET RagTemplateKeys
    /\ query_prompt = <<>>
    /\ rag_pc = "templates"
    /\ rag_signal = ""
    /\ generation_llm \in GenerationModels
    /\ llm_provider = NoProvider
    /\ llm_call = NoClientCall
    /\ SplitUnused
    /\ CiteUnused
    /\ ProviderUnused
    /\ AppUnused

\* lines 72-123: the three sections are resolved and the prompt is joined
RagBuildPrompt ==
    /\ rag_pc = "templates"
    /\ LET system_prompt == get_template("SYSTEM_PROMPT", <<>>)
           entries == ContextEntries(relevant_vectors, 0)
           footer == get_template("FOOTER", <<>>)
       IN  IF system_prompt = NoTemplate \/ entries = <<>> \/ footer = NoTemplate
           THEN /\ rag_signal' = "RAG_GENERATION_FAILED"
                /\ rag_pc' = "done"
                /\ UNCHANGED query_prompt
           ELSE /\ query_prompt' = Append(entries, footer)
                /\ rag_pc' = "generate"
                /\ UNCHANGED rag_signal
    /\ UNCHANGED <<relevant_vectors, templates, generation_llm, llm_provider, llm_call>>
    /\ UNCHANGED <<citeVars, split_call, provVars, appVars>>

\* generate returns a text also without a client
CohereProvider_generate_without_client(llm, content) ==
    IF content = <<>> THEN NoResponse
    ELSE [text |-> content[1].text]

\* CohereProvider.generate: None without a client, without a generation
\* model id, or for a response with no content; else the text of the first
\* content item
CohereProvider_generate(llm, content) ==
    IF ~llm.client THEN NoResponse
    ELSE IF llm.generation_model_id = "None" THEN NoResponse
    ELSE IF content = <<>> THEN NoResponse
    ELSE [text |-> content[1].text]

\* lines 125-134: the generation model answers with a text
RagGenerate ==
    /\ rag_pc = "generate"
    /\ \E content \in ResponseContents :
          LET rag_response == CohereProvider_generate(generation_llm, content)
          IN  /\ rag_response # NoResponse
              /\ written' = rag_response.text
    /\ response' = Render(written')
    /\ rag_pc' = "extract"
    /\ UNCHANGED <<relevant_vectors, templates, query_prompt, rag_signal,
                   generation_llm, llm_provider, llm_call>>
    /\ UNCHANGED <<context_entries, ordered_citations, cite_pc>>
    /\ UNCHANGED <<split_call, provVars, appVars>>

\* lines 125-141: the generation model answers with None
RagGenerateNone ==
    /\ rag_pc = "generate"
    /\ \E content \in ResponseContents :
          CohereProvider_generate(generation_llm, content) = NoResponse
    /\ rag_signal' = "RAG_GENERATION_FAILED"
    /\ rag_pc' = "done"
    /\ UNCHANGED <<relevant_vectors, templates, query_prompt, generation_llm,
                   llm_provider, llm_call>>
    /\ UNCHANGED <<citeVars, split_call, provVars, appVars>>

\* lines 143-154: the citations are extracted and the request is answered
RagExtract ==
    /\ rag_pc = "extract"
    /\ context_entries' = relevant_vectors
    /\ ordered_citations' = extract_citations(response, relevant_vectors)
    /\ cite_pc' = "done"
    /\ rag_signal' = "202_ACCEPTED"
    /\ rag_pc' = "done"
    /\ UNCHANGED <<relevant_vectors, templates, query_prompt, generation_llm,
                   llm_provider, llm_call>>
    /\ UNCHANGED <<written, response>>
    /\ UNCHANGED <<split_call, provVars, appVars>>

NextRag == RagBuildPrompt \/ RagGenerate \/ RagGenerateNone \/ RagExtract

SpecRag == InitRag /\ [][NextRag]_vars

(***************************************************************************)
(* SpecSplit: process_file splitting one loaded text                       *)
(*                                                                         *)
(* process_file hands every loaded text to RecursiveCharacterTextSplitter  *)
(* (chunk_size, chunk_overlap; separators "\n\n", "\n", " ", "", kept at    *)
(* the start of the piece that follows; whitespace stripped from merged    *)
(* chunks).  A text here is a sequence of letters and blanks, so of the    *)
(* separators only " " and "" can apply.                                   *)
(***************************************************************************)

MaxText == 6
MaxChunkSize == 3

Characters == {"a", " "}

\* str.strip
RECURSIVE lstrip(_)
lstrip(text) ==
    IF text # <<>> /\ Head(text) = " " THEN lstrip(Tail(text)) ELSE text

RECURSIVE rstrip(_)
rstrip(text) ==
    IF text # <<>> /\ text[Len(text)] = " "
    THEN rstrip(SubSeq(text, 1, Len(text) - 1))
    ELSE text

strip(text) == rstrip(lstrip(text))

\* _split_text_with_regex on " " keeping the separator: every blank starts
\* a new piece, and no piece is empty
RECURSIVE _split_text_with_regex(_)
_split_text_with_regex(text) ==
    IF text = <<>> THEN <<>>
    ELSE LET blanks == {i \in 2..Len(text) : text[i] = " "}
             stop   == IF blanks = {} THEN Len(text) + 1
                       ELSE CHOOSE i \in blanks : \A j \in blanks : i <= j
         IN  <<SubSeq(text, 1, stop - 1)>>
             \o _split_text_with_regex(SubSeq(text, stop, Len(text)))

\* the pieces of a list joined with the empty separator
RECURSIVE Joined(_)
Joined(pieces) ==
    IF pieces = <<>> THEN <<>> ELSE Head(pieces) \o Joined(Tail(pieces))

\* _join_docs: the joined text stripped, nothing when that is empty
_join_docs(current_doc) ==
    IF strip(Joined(current_doc)) = <<>> THEN <<>>
    ELSE <<strip(Joined(current_doc))>>

\* _merge_splits, the while loop: pieces leave the front of current_doc
\* until at most chunk_overlap characters stay and the next piece fits
RECURSIVE DropFront(_, _, _, _)
DropFront(current_doc, length, chunk_size, chunk_overlap) ==
    LET total == Len(Joined(current_doc))
    IN  IF \/ total > chunk_overlap
           \/ (total + length > chunk_size /\ total > 0)
        THEN DropFront(Tail(current_doc), length, chunk_size, chunk_overlap)
        ELSE current_doc

\* _merge_splits from the piece it has reached, with the separator ""
RECURSIVE MergeFrom(_, _, _, _)
MergeFrom(splits, current_doc, chunk_size, chunk_overlap) ==
    IF splits = <<>> THEN _join_docs(current_doc)
    ELSE LET d     == Head(splits)
             total == Len(Joined(current_doc))
             full  == total + Len(d) > chunk_size /\ current_doc # <<>>
             kept  == IF full
                      THEN DropFront(current_doc, Len(d), chunk_size, chunk_overlap)
                      ELSE current_doc
         IN  (IF full THEN _join_docs(current_doc) ELSE <<>>)
             \o MergeFrom(Tail(splits), Append(kept, d), chunk_size, chunk_overlap)

_merge_splits(splits, chunk_size, chunk_overlap) ==
    MergeFrom(splits, <<>>, chunk_size, chunk_overlap)

\* the single characters of a text
characters(text) == [i \in 1..Len(text) |-> <<text[i]>>]

\* _split_text, the loop over the splits: short pieces are collected and
\* merged, a piece of chunk_size or more is split further, or kept as it is
\* when no separator is left
RECURSIVE SplitLoop(_, _, _, _, _)
RECURSIVE _split_text(_, _, _, _)
SplitLoop(splits, _good_splits, new_separators, chunk_size, chunk_overlap) ==
    IF splits = <<>>
    THEN _merge_splits(_good_splits, chunk_size, chunk_overlap)
    ELSE IF Len(Head(splits)) < chunk_size
    THEN SplitLoop(Tail(splits), Append(_good_splits, Head(splits)), new_separators,
                   chunk_size, chunk_overlap)
    ELSE _merge_splits(_good_splits, chunk_size, chunk_overlap)
         \o (IF new_separators = <<>> THEN <<Head(splits)>>
             ELSE _split_text(Head(splits), new_separators, chunk_size, chunk_overlap))
         \o SplitLoop(Tail(splits), <<>>, new_separators, chunk_size, chunk_overlap)

\* _split_text: the first separator found in the text splits it, the ones
\* after it are left for the pieces that are too long
_split_text(text, separators, chunk_size, chunk_overlap) ==
    IF Head(separators) = " " /\ \E i \in 1..Len(text) : text[i] = " "
    THEN SplitLoop(_split_text_with_regex(text), <<>>, Tail(separators),
                   chunk_size, chunk_overlap)
    ELSE SplitLoop(characters(text), <<>>, <<>>, chunk_size, chunk_overlap)

\* RecursiveCharacterTextSplitter.split_text
split_text(text, chunk_size, chunk_overlap) ==
    _split_text(text, <<" ", "">>, chunk_size, chunk_overlap)

\* a text loaded from a file, and the chunk_size and chunk_overlap of the
\* request (chunk_size > 0, 0 <= chunk_overlap < chunk_size)
InitSplit ==
    /\ \E text \in SeqsUpTo(Characters, MaxText) :
          \E chunk_size \in 1..MaxChunkSize :
             \E chunk_overlap \in 0..(chunk_size - 1) :
                split_call = [text |-> text, chunk_size |-> chunk_size,
                              chunk_overlap |-> chunk_overlap, pc |-> "call",
                              chunks |-> <<>>]
    /\ relevant_vectors = <<>>
    /\ templates = {}
    /\ query_prompt = <<>>
    /\ rag_pc = "idle"
    /\ rag_signal = ""
    /\ generation_llm = [client |-> TRUE, generation_model_id |-> "None"]
    /\ llm_provider = NoProvider
    /\ llm_call = NoClientCall
    /\ CiteUnused
    /\ ProviderUnused
    /\ AppUnused

\* process_file: splitter.create_documents makes one chunk of every text
\* split_text returns, in order
process_file_split ==
    /\ split_call.pc = "call"
    /\ split_call' = [split_call EXCEPT
          !.pc = "done",
          !.chunks = split_text(split_call.text, split_call.chunk_size,
                                split_call.chunk_overlap)]
    /\ UNCHANGED <<citeVars, ragVars, provVars, appVars>>

NextSplit == process_file_split

SpecSplit == InitSplit /\ [][NextSplit]_vars

(***************************************************************************)
(* SpecLLM: one CohereProvider instance and the calls made of it           *)
(***************************************************************************)

\* BaseLLMProvider.__init__ defaults; a temperature is counted in hundredths
DefaultMaxOutputTokens == 1024
DefaultTemperature == 15

\* what models_ lists, and the ids a caller may ask for
AvailableModels == {"command", "embed-a", "embed-b"}
ModelIds == AvailableModels \cup {"unknown"}

\* embedding_size arguments: None or a dimension
SizeArguments == {<<>>, <<2>>, <<3>>}

\* max_tokens and temperature arguments: None, or a value RAGQueryRequest
\* accepts (max_output_tokens >= 1, 0.0 <= temperature <= 2.0)
MaxTokensArguments == {<<>>, <<1>>, <<256>>}
TemperatureArguments == {<<>>, <<0>>, <<15>>, <<70>>, <<200>>}

\* Python's "value or default": the default replaces None and every other
\* falsy value, 0 and 0.0 included
Or(value, default) ==
    IF value = <<>> \/ value[1] = 0 THEN default ELSE value[1]

\* CohereProvider.__init__: the client is built with the instance
InitLLM ==
    /\ llm_provider = [NoProvider EXCEPT !.client = TRUE]
    /\ llm_call = NoClientCall
    /\ SplitUnused
    /\ relevant_vectors = <<>>
    /\ templates = {}
    /\ query_prompt = <<>>
    /\ rag_pc = "idle"
    /\ rag_signal = ""
    /\ generation_llm = [client |-> TRUE, generation_model_id |-> "None"]
    /\ CiteUnused
    /\ ProviderUnused
    /\ AppUnused

LLMFrame ==
    /\ UNCHANGED <<relevant_vectors, templates, query_prompt, rag_pc, rag_signal,
                   generation_llm>>
    /\ UNCHANGED <<citeVars, split_call, provVars, appVars>>

\* the client.embed call CohereProvider.embed makes
EmbedClientCall(provider) ==
    [op |-> "embed", model |-> provider.embedding_model_id,
     output_dimension |-> provider.embedding_size[1]]

\* CohereProvider.embed reaches its client only with a client, a model id
\* and a size set; otherwise it returns []
EmbedReachesClient(provider) ==
    /\ provider.client
    /\ provider.embedding_model_id # "None"
    /\ provider.embedding_size # <<>>

\* BaseLLMProvider.set_generation_model
set_generation_model(model_id) ==
    /\ llm_provider' =
          IF model_id \notin AvailableModels THEN llm_provider
          ELSE [llm_provider EXCEPT !.generation_model_id = model_id]
    /\ UNCHANGED llm_call
    /\ LLMFrame

\* BaseLLMProvider.set_embedding_model: an unavailable model changes nothing;
\* a size given is stored; without one the size is the length of a test
\* embedding, which is the size already set, and with no size set embed
\* returns [] and [][0] raises after the model id was stored
set_embedding_model(model_id, size) ==
    /\ IF model_id \notin AvailableModels
       THEN UNCHANGED <<llm_provider, llm_call>>
       ELSE LET chosen == [llm_provider EXCEPT !.embedding_model_id = model_id]
            IN  IF size # <<>>
                THEN /\ llm_provider' = [chosen EXCEPT !.embedding_size = size]
                     /\ UNCHANGED llm_call
                ELSE /\ llm_provider' = chosen
                     /\ llm_call' = IF EmbedReachesClient(chosen)
                                      THEN EmbedClientCall(chosen)
                                      ELSE llm_call
    /\ LLMFrame

\* CohereProvider.embed with an input type
embed ==
    /\ llm_call' = IF EmbedReachesClient(llm_provider)
                     THEN EmbedClientCall(llm_provider)
                     ELSE llm_call
    /\ UNCHANGED llm_provider
    /\ LLMFrame

\* the client.chat call CohereProvider.generate makes: it records what the
\* caller gave and what the client received
ChatClientCall(provider, max_tokens, temperature) ==
    [op |-> "chat", model |-> provider.generation_model_id,
     given_max_tokens |-> max_tokens, given_temperature |-> temperature,
     max_tokens |-> Or(max_tokens, DefaultMaxOutputTokens),
     temperature |-> Or(temperature, DefaultTemperature)]

\* CohereProvider.generate: None without a client or a generation model
generate(max_tokens, temperature) ==
    /\ llm_call' =
          IF llm_provider.client /\ llm_provider.generation_model_id # "None"
          THEN ChatClientCall(llm_provider, max_tokens, temperature)
          ELSE llm_call
    /\ UNCHANGED llm_provider
    /\ LLMFrame

NextLLM ==
    \/ \E model_id \in ModelIds : set_generation_model(model_id)
    \/ \E model_id \in ModelIds, size \in SizeArguments :
          set_embedding_model(model_id, size)
    \/ embed
    \/ \E max_tokens \in MaxTokensArguments, temperature \in TemperatureArguments :
          generate(max_tokens, temperature)

SpecLLM == InitLLM /\ [][NextLLM]_vars

(***************************************************************************)
(* The Qdrant storage behind QdrantProvider.client                         *)
(***************************************************************************)

\* client.collection_exists
collection_exists(c, name) == c[name].exists

\* client.delete_collection
delete_collection(c, name) == [c EXCEPT ![name] = NoCollection]

\* client.create_collection, on a name that holds no collection
create_collection(c, name, size) ==
    [c EXCEPT ![name] = [exists |-> TRUE, size |-> size, points |-> <<>>]]

\* client.upload_collection raises unless the collection exists and every
\* vector has its size
upload_accepted(c, name, vectors) ==
    /\ c[name].exists
    /\ \A i \in 1..Len(vectors) : vectors[i].size = c[name].size

\* ids counted from 0 on every call: the new points take the place of the
\* points held
upload_collection_same_ids(c, name, vectors, payload) ==
    [c EXCEPT ![name].points =
        [i \in 1..Len(vectors) |->
            [vector |-> vectors[i], payload |-> payload[i]]]
        \o SubSeq(@, Len(vectors) + 1, Len(@))]

\* client.upload_collection: one new point per vector, ids drawn afresh
upload_collection(c, name, vectors, payload) ==
    [c EXCEPT ![name].points =
        @ \o [i \in 1..Len(vectors) |->
                 [vector |-> vectors[i], payload |-> payload[i]]]]

(***************************************************************************)
(* QdrantProvider                                                          *)
(***************************************************************************)
\* Optional[List[Dict]]
NoMetadata == [given |-> FALSE, list |-> <<>>]
SomeMetadata(list) == [given |-> TRUE, list |-> list]

\* the truth value Python gives an Optional list
Truthy(metadata) == metadata.given /\ metadata.list # <<>>

EmptyDict == "{}"

QdrantProvider_index_exists(cl, c, name) ==
    IF ~cl THEN FALSE ELSE collection_exists(c, name)

\* replace=True treated like replace=False
QdrantProvider_create_index_never_replaces(cl, c, name, dimensions, replace) ==
    IF ~cl THEN c
    ELSE IF QdrantProvider_index_exists(cl, c, name)
         THEN c
         ELSE create_collection(c, name, dimensions)

\* replace=False treated like replace=True
QdrantProvider_create_index_always_replaces(cl, c, name, dimensions, replace) ==
    IF ~cl THEN c
    ELSE create_collection(delete_collection(c, name), name, dimensions)

\* create_index: the storage when the call returns
QdrantProvider_create_index(cl, c, name, dimensions, replace) ==
    IF ~cl THEN c
    ELSE IF QdrantProvider_index_exists(cl, c, name)
         THEN IF ~replace
              THEN c
              ELSE create_collection(delete_collection(c, name), name, dimensions)
         ELSE create_collection(c, name, dimensions)

\* delete_index: the storage when the call returns
QdrantProvider_delete_index(cl, c, name) ==
    IF ~cl THEN c
    ELSE IF QdrantProvider_index_exists(cl, c, name)
         THEN delete_collection(c, name)
         ELSE c

NoInfo == [found |-> FALSE]

\* get_index_info: collection.model_dump(), or None
QdrantProvider_get_index_info(cl, c, name) ==
    IF ~cl THEN NoInfo
    ELSE IF ~QdrantProvider_index_exists(cl, c, name) THEN NoInfo
         ELSE [found |-> TRUE,
               points_count |-> Len(c[name].points),
               size |-> c[name].size]

\* the payload list comprehension of insert_vectors
insert_payload(texts, metadata) ==
    [i \in 1..Len(texts) |->
        [text |-> texts[i],
         metadata |-> IF Truthy(metadata) THEN metadata.list[i] ELSE EmptyDict]]

\* no length check: the vectors there are go in, each with the text at its
\* position
insert_checked_shortest(c, name, texts, vectors, metadata) ==
    IF upload_accepted(c, name, vectors) /\ Len(vectors) <= Len(texts)
    THEN [colls |-> upload_collection(c, name, vectors,
                                      insert_payload(SubSeq(texts, 1, Len(vectors)),
                                                     metadata)),
          ret |-> "None"]
    ELSE [colls |-> c, ret |-> "None"]

\* insert_vectors from the length checks on (lines 221-255): the storage
\* when the call returns, and the value returned
insert_checked(c, name, texts, vectors, metadata) ==
    IF Truthy(metadata) /\ Len(metadata.list) # Len(vectors)
    THEN [colls |-> c, ret |-> "None"]
    ELSE IF Len(texts) # Len(vectors)
    THEN [colls |-> c, ret |-> "None"]
    ELSE IF upload_accepted(c, name, vectors)
    THEN [colls |-> upload_collection(c, name, vectors,
                                      insert_payload(texts, metadata)),
          ret |-> "None"]
    ELSE [colls |-> c, ret |-> "None"]

\* insert_vectors: the storage when the call returns, and the value returned
QdrantProvider_insert_vectors(cl, c, name, texts, vectors, metadata) ==
    IF ~cl THEN [colls |-> c, ret |-> "None"]
    ELSE IF ~QdrantProvider_index_exists(cl, c, name)
    THEN [colls |-> c, ret |-> "None"]
    ELSE insert_checked(c, name, texts, vectors, metadata)

\* the ranked lists client.search may hand back: stored points, none twice
RankedPoints(points, top_k) ==
    {r \in SeqsUpTo(1..Len(points), top_k) :
        \A a, b \in 1..Len(r) : a # b => r[a] # r[b]}

\* query_vectors: the values the call may return ([] also when search raises)
QdrantProvider_query_vectors(cl, c, name, top_k) ==
    IF ~cl THEN {<<>>}
    ELSE IF ~QdrantProvider_index_exists(cl, c, name) THEN {<<>>}
         ELSE {[i \in 1..Len(r) |-> c[name].points[r[i]]] :
                  r \in RankedPoints(c[name].points, top_k)}

\* bool(value) as "if not inserted" reads it
IsTrue(value) == value = "True"

(***************************************************************************)
(* SpecProvider: one caller, one QdrantProvider call after another         *)
(***************************************************************************)
ProviderName == _construct_index_name("p1", 2)
ProviderTexts == {"c1", "c2"}
ProviderMetadata == {"m1"}

\* vectors of one call: all of one size
ProviderVectorLists ==
    {[i \in 1..n |-> [size |-> e, of |-> "c1"]] :
        n \in 0..MaxBatch, e \in EmbeddingSizes}

ProviderMetadataLists ==
    {NoMetadata} \cup {SomeMetadata(m) : m \in SeqsUpTo(ProviderMetadata, MaxBatch)}

Held(c, name) == IF c[name].exists THEN Len(c[name].points) ELSE 0

\* QdrantProvider.__init__
InitProvider ==
    /\ client = FALSE
    /\ collections = [n \in IndexNames |-> NoCollection]
    /\ prov_call = NoCall
    /\ CiteUnused
    /\ RagIdle
    /\ SplitUnused
    /\ AppUnused

ProviderConnect ==
    /\ client' = TRUE
    /\ prov_call' = [NoCall EXCEPT !.op = "connect"]
    /\ UNCHANGED collections
    /\ UNCHANGED <<citeVars, ragVars, split_call, appVars>>

ProviderDisconnect ==
    /\ client' = FALSE
    /\ prov_call' = [NoCall EXCEPT !.op = "disconnect"]
    /\ UNCHANGED collections
    /\ UNCHANGED <<citeVars, ragVars, split_call, appVars>>

ProviderCreateIndex(name, dimensions, replace) ==
    /\ collections' =
          QdrantProvider_create_index(client, collections, name, dimensions, replace)
    /\ prov_call' = [NoCall EXCEPT
          !.op = "create_index", !.dims = dimensions, !.replace = replace,
          !.existed = QdrantProvider_index_exists(client, collections, name),
          !.held = Held(collections, name)]
    /\ UNCHANGED client
    /\ UNCHANGED <<citeVars, ragVars, split_call, appVars>>

ProviderDeleteIndex(name) ==
    /\ collections' = QdrantProvider_delete_index(client, collections, name)
    /\ prov_call' = [NoCall EXCEPT
          !.op = "delete_index",
          !.existed = QdrantProvider_index_exists(client, collections, name),
          !.held = Held(collections, name)]
    /\ UNCHANGED client
    /\ UNCHANGED <<citeVars, ragVars, split_call, appVars>>

ProviderInsertVectors(name, texts, vectors, metadata) ==
    /\ Held(collections, name) + Len(vectors) <= MaxPoints
    /\ LET r == QdrantProvider_insert_vectors(client, collections, name,
                                              texts, vectors, metadata)
       IN  /\ collections' = r.colls
           /\ prov_call' = [NoCall EXCEPT
                 !.op = "insert_vectors",
                 !.existed = QdrantProvider_index_exists(client, collections, name),
                 !.held = Held(collections, name),
                 !.texts = Len(texts), !.vectors = Len(vectors),
                 !.metadata = IF metadata.given THEN Len(metadata.list) ELSE -1,
                 !.ret = r.ret]
    /\ UNCHANGED client
    /\ UNCHANGED <<citeVars, ragVars, split_call, appVars>>

CreateIndexCall ==
    \E dimensions \in EmbeddingSizes, replace \in BOOLEAN :
        ProviderCreateIndex(ProviderName, dimensions, replace)

DeleteIndexCall == ProviderDeleteIndex(ProviderName)

InsertVectorsCall ==
    \E texts \in SeqsUpTo(ProviderTexts, MaxBatch),
       vectors \in ProviderVectorLists,
       metadata \in ProviderMetadataLists :
        ProviderInsertVectors(ProviderName, texts, vectors, metadata)

NextProvider ==
    \/ ProviderConnect
    \/ ProviderDisconnect
    \/ CreateIndexCall
    \/ DeleteIndexCall
    \/ InsertVectorsCall

SpecProvider == InitProvider /\ [][NextProvider]_vars

(***************************************************************************)
(* The index route and the query route, one step per awaited call          *)
(***************************************************************************)
EmbedBatchSize == 64

AssetNames == {"a1", "a2"}

ChunkSizes == {1, 2}

\* DocumentChunk: chunk k of the file of an asset, split at chunk_size
DocumentChunk(asset_id, chunk_size, k) ==
    [asset_id |-> asset_id, order |-> k - 1,
     content |-> <<"text", asset_id, chunk_size, k>>]

Chunk(k) == DocumentChunk("a1", 1, k)

\* the chunk lists of one asset: orders 0..n-1
ChunkLists == {[k \in 1..n |-> Chunk(k)] : n \in 0..MaxChunks}

Min(a, b) == IF a < b THEN a ELSE b

\* the index a request works on
IndexOf(t) == _construct_index_name(req[t].project, embedding_size)

\* lifespan startup is over: the client is connected, the embedding model set
InitApp ==
    /\ client = TRUE
    /\ collections = [n \in IndexNames |-> NoCollection]
    /\ prov_call = NoCall
    /\ embedding_size \in EmbeddingSizes
    /\ projects = {"p1"}
    /\ \E stored \in ChunkLists :
          chunk_store = [p \in ProjectIds |-> IF p = "p1" THEN stored ELSE <<>>]
    /\ assets = [p \in ProjectIds |-> IF p = "p1" THEN AssetNames ELSE {}]
    /\ files = assets
    /\ req = [t \in Slots |-> NoReq]
    /\ CiteUnused
    /\ RagIdle
    /\ SplitUnused

Free(t) == req[t].pc \in {"idle", "done"}

Indexing(u) == req[u].kind \in {"index", "index_vectors"} /\ ~Free(u)

\* room left under MaxIndexed for one more indexing pass on project p
CanIndex(p) ==
    Held(collections, _construct_index_name(p, embedding_size))
      + (Cardinality({u \in Slots : Indexing(u) /\ req[u].project = p}) + 1)
          * MaxChunks
      <= MaxIndexed

Frame == UNCHANGED <<citeVars, ragVars, split_call, client, prov_call, embedding_size,
                     projects, chunk_store, assets, files>>

Finish(t, signal) ==
    req' = [req EXCEPT ![t].pc = "done", ![t].signal = signal]

\* POST /vectors/index arrives
StartIndex(t) ==
    /\ Free(t)
    /\ \E p \in ProjectIds, reset \in BOOLEAN :
          /\ CanIndex(p)
          /\ req' = [req EXCEPT ![t] =
                [NoReq EXCEPT !.kind = "index", !.pc = "get_project",
                              !.project = p, !.reset = reset]]
    /\ UNCHANGED collections
    /\ Frame

\* POST /vectors/query or POST /rag/generate arrives: the two routes have
\* the same steps up to the similarity search
StartQuery(t) ==
    /\ Free(t)
    /\ \E p \in ProjectIds, route \in {"query", "rag"} :
          req' = [req EXCEPT ![t] =
                [NoReq EXCEPT !.kind = route, !.pc = "get_project",
                              !.project = p]]
    /\ UNCHANGED collections
    /\ Frame

\* VectorController.index_vectors(project_id, chunks, reset) is called, the
\* call before it having returned
StartIndexVectors(t) ==
    /\ \A u \in Slots : Free(u)
    /\ \E chunks \in ChunkLists, reset \in BOOLEAN :
          /\ CanIndex("p1")
          /\ req' = [req EXCEPT ![t] =
                [NoReq EXCEPT !.kind = "index_vectors", !.pc = "create_exists",
                              !.project = "p1", !.reset = reset,
                              !.chunks = chunks]]
    /\ UNCHANGED collections
    /\ Frame

(***************************************************************************)
(* The chunk collection and the files behind the document routes           *)
(***************************************************************************)

\* the order of the asset ids
AssetRank(asset_id) == IF asset_id = "a1" THEN 1 ELSE 2

\* sort([("file_id", 1), ("chunk_order", 1)])
ChunkBefore(a, b) ==
    \/ AssetRank(a.asset_id) < AssetRank(b.asset_id)
    \/ a.asset_id = b.asset_id /\ a.order < b.order

\* a chunk put into a list kept in reading order, behind its equals
RECURSIVE InsertChunk(_, _)
InsertChunk(stored, chunk) ==
    IF stored = <<>> THEN <<chunk>>
    ELSE IF ChunkBefore(chunk, Head(stored))
         THEN <<chunk>> \o stored
         ELSE <<Head(stored)>> \o InsertChunk(Tail(stored), chunk)

\* collection.delete_many that deletes nothing
delete_many_keeps(stored, asset_id) == stored

\* collection.delete_many({"project_id": ..., "asset_id": ...})
delete_many(stored, asset_id) ==
    SelectSeq(stored, LAMBDA chunk : chunk.asset_id # asset_id)

\* collection.bulk_write of one InsertOne per chunk
RECURSIVE bulk_write(_, _)
bulk_write(stored, chunks) ==
    IF chunks = <<>> THEN stored
    ELSE bulk_write(InsertChunk(stored, Head(chunks)), Tail(chunks))

\* the chunks stored for one asset
ChunksOf(stored, asset_id) ==
    SelectSeq(stored, LAMBDA chunk : chunk.asset_id = asset_id)

\* the number of chunks the splitter cuts a file into at a chunk size
NumChunks(file_id, chunk_size) == IF chunk_size = 1 THEN MaxChunks ELSE 1

\* DocumentController.process_file: the chunk documents of a file, none when
\* the file cannot be loaded
process_file(p, file_id, chunk_size) ==
    IF file_id \in files[p]
    THEN [k \in 1..NumChunks(file_id, chunk_size) |->
             [content |-> <<"text", file_id, chunk_size, k>>]]
    ELSE <<>>

\* chunk_order=idx_ for idx_, chunk in enumerate(chunks)
ChunkOrder(idx_) == idx_

\* chunks_objects: the chunk documents with project, asset and chunk order
ChunkObjects(chunks, asset_id) ==
    [k \in 1..Len(chunks) |->
        [asset_id |-> asset_id, order |-> ChunkOrder(k - 1),
         content |-> chunks[k].content]]

\* cursor.to_list of the assets of a project
AssetList(names) ==
    IF names = {} THEN <<>>
    ELSE IF "a1" \notin names THEN <<"a2">>
    ELSE IF "a2" \notin names THEN <<"a1">>
    ELSE <<"a1", "a2">>

\* what the route does between get_project_by_id and its next await
AfterProject(r) ==
    IF r.kind = "index" THEN [r EXCEPT !.pc = "count_chunks"]
    ELSE IF r.kind \in {"query", "rag"} THEN [r EXCEPT !.pc = "info_exists"]
    ELSE IF r.kind = "refresh" THEN [r EXCEPT !.pc = "get_assets"]
    ELSE IF r.kind = "delete_asset" THEN [r EXCEPT !.pc = "asset_by_name"]
    ELSE IF r.kind = "delete_project_assets" THEN [r EXCEPT !.pc = "list_assets"]
    ELSE LET chunks == process_file(r.project, r.file_id, r.chunk_size)
         IN  IF chunks = <<>>
             THEN [r EXCEPT !.pc = "done",
                            !.signal = "DOCUMENT_PROCESSING_FAILED"]
             ELSE [r EXCEPT !.pc = "get_asset", !.chunks = chunks]

\* project_model.get_project_by_id
GetProject(t) ==
    /\ req[t].pc = "get_project"
    /\ IF req[t].project \notin projects
       THEN Finish(t, "PROJECT_NOT_FOUND")
       ELSE req' = [req EXCEPT ![t] = AfterProject(@)]
    /\ UNCHANGED collections
    /\ Frame

\* document_chunk_model.count_chunks_by_project
CountChunks(t) ==
    /\ req[t].pc = "count_chunks"
    /\ LET chunk_count == Len(chunk_store[req[t].project])
       IN  IF chunk_count = 0
           THEN Finish(t, "NO_DOCUMENTS_FOUND")
           ELSE req' = [req EXCEPT ![t].pc = "get_chunks",
                                   ![t].count = chunk_count]
    /\ UNCHANGED collections
    /\ Frame

\* document_chunk_model.get_chunks_by_project(skip=0, limit=chunk_count)
GetChunks(t) ==
    /\ req[t].pc = "get_chunks"
    /\ LET stored == chunk_store[req[t].project]
       IN  req' = [req EXCEPT
              ![t].pc = "create_exists",
              ![t].chunks = SubSeq(stored, 1, Min(req[t].count, Len(stored)))]
    /\ UNCHANGED collections
    /\ Frame

\* where index_vectors goes on once create_index is over
AfterCreate(t) == IF req[t].chunks = <<>> THEN "insert_exists" ELSE "embed"

\* the branch taken with replace ignored
CreateIndexBranch_ignores_replace(exists, replace) ==
    IF exists THEN "skip" ELSE "create"

\* create_index after the existence check: skip, delete and create, or create
CreateIndexBranch(exists, replace) ==
    IF exists
    THEN IF ~replace THEN "skip" ELSE "delete"
    ELSE "create"

\* create_index: await self.index_exists(index_name)
CreateExists(t) ==
    /\ req[t].pc = "create_exists"
    /\ LET branch == CreateIndexBranch(
                        QdrantProvider_index_exists(client, collections, IndexOf(t)),
                        req[t].reset)
       IN  req' = [req EXCEPT
              ![t].pc = IF ~client \/ branch = "skip" THEN AfterCreate(t)
                        ELSE IF branch = "delete" THEN "create_delete"
                        ELSE "create_create",
              ![t].calls = Append(@, [op |-> "create_index", name |-> IndexOf(t),
                                      dimensions |-> embedding_size,
                                      replace |-> req[t].reset])]
    /\ UNCHANGED collections
    /\ Frame

\* create_index: await self.client.delete_collection
CreateDelete(t) ==
    /\ req[t].pc = "create_delete"
    /\ collections' = delete_collection(collections, IndexOf(t))
    /\ req' = [req EXCEPT ![t].pc = "create_create"]
    /\ Frame

\* create_index: await self.client.create_collection, which raises when the
\* collection is there
CreateCreate(t) ==
    /\ req[t].pc = "create_create"
    /\ IF collection_exists(collections, IndexOf(t))
       THEN /\ Finish(t, "UNHANDLED_EXCEPTION")
            /\ UNCHANGED collections
       ELSE /\ collections' =
                  create_collection(collections, IndexOf(t), embedding_size)
            /\ req' = [req EXCEPT ![t].pc = AfterCreate(t)]
    /\ Frame

\* the value embed returns for texts
Embedded(texts) ==
    [shape |-> "list",
     items |-> [k \in 1..Len(texts) |-> [size |-> embedding_size, of |-> texts[k]]]]

NoEmbeddings == [shape |-> "list", items |-> <<>>]

\* VectorController._normalize_vectors
_normalize_vectors(vectors) ==
    IF vectors.shape = "vector"
    THEN [shape |-> "list", items |-> <<vectors>>]
    ELSE vectors

\* every batch is the first one
BatchTexts_from_start(t) ==
    LET texts == [k \in 1..Len(req[t].chunks) |-> req[t].chunks[k].content]
    IN  SubSeq(texts, 1, Min(EmbedBatchSize, Len(texts)))

\* batch_texts = texts[i : i + 64]
BatchTexts(t) ==
    LET texts == [k \in 1..Len(req[t].chunks) |-> req[t].chunks[k].content]
    IN  SubSeq(texts, req[t].i + 1, Min(req[t].i + EmbedBatchSize, Len(texts)))

\* the call embed(batch_texts, input_type=InputType.DOCUMENT)
EmbedCall(t) == [op |-> "embed", texts |-> BatchTexts(t), input_type |-> "DOCUMENT"]

\* one pass of the loop over the batches, embed returning batch_vectors
EmbedStep(t, batch_vectors) ==
    LET i == req[t].i + EmbedBatchSize
    IN  req' = [req EXCEPT
           ![t].calls = Append(@, EmbedCall(t)),
           ![t].vectors = @ \o _normalize_vectors(batch_vectors).items,
           ![t].i = i,
           ![t].pc = IF i < Len(req[t].chunks) THEN "embed" ELSE "insert_exists"]

\* index_vectors: await self.embedding_model.embed(batch_texts, DOCUMENT)
EmbedBatch(t) ==
    /\ req[t].pc = "embed"
    /\ EmbedStep(t, Embedded(BatchTexts(t)))
    /\ UNCHANGED collections
    /\ Frame

\* embed returns [] (no embeddings came back)
EmbedBatchEmpty(t) ==
    /\ req[t].pc = "embed"
    /\ EmbedStep(t, NoEmbeddings)
    /\ UNCHANGED collections
    /\ Frame

\* embed raises
EmbedBatchRaises(t) ==
    /\ req[t].pc = "embed"
    /\ req' = [req EXCEPT ![t].calls = Append(@, EmbedCall(t)),
                          ![t].pc = "done",
                          ![t].signal = "UNHANDLED_EXCEPTION"]
    /\ UNCHANGED collections
    /\ Frame

\* str(chunk.asset_id)
Str(x) == <<"str", x>>

\* chunk_order taken from the position in the list
Metadatas_by_position(chunks) ==
    [k \in 1..Len(chunks) |->
        [chunk_asset |-> Str(chunks[k].asset_id), chunk_order |-> k - 1]]

\* metadata["chunk_asset"] = str(chunk.asset_id);
\* metadata["chunk_order"] = chunk.order
Metadatas(chunks) ==
    [k \in 1..Len(chunks) |->
        [chunk_asset |-> Str(chunks[k].asset_id), chunk_order |-> chunks[k].order]]

\* the index route's answer to what index_vectors returned
IndexAnswer(inserted) ==
    IF ~IsTrue(inserted) THEN "VECTOR_INDEXING_FAILED" ELSE "201_CREATED"

\* index_vectors returns: the route answers, a direct caller has the value
Returned(r, inserted, wrote) ==
    [r EXCEPT
       !.pc = "done",
       !.inserted = inserted,
       !.wrote = wrote,
       !.signal = IF r.kind = "index" THEN IndexAnswer(inserted) ELSE "returned"]

Return(t, inserted, wrote) ==
    req' = [req EXCEPT ![t] = Returned(@, inserted, wrote)]

\* the texts of the chunks of a request
Texts(t) == [k \in 1..Len(req[t].chunks) |-> req[t].chunks[k].content]

\* the call insert_vectors(index_name, texts=, vectors=, metadata=)
InsertCall(t) ==
    [op |-> "insert_vectors", name |-> IndexOf(t), texts |-> Texts(t),
     vectors |-> _normalize_vectors([shape |-> "list", items |-> req[t].vectors]).items,
     metadata |-> Metadatas(req[t].chunks)]

\* insert_vectors: await self.index_exists(index_name)
InsertExists(t) ==
    /\ req[t].pc = "insert_exists"
    /\ LET r == [req[t] EXCEPT !.calls = Append(@, InsertCall(t))]
       IN  req' = [req EXCEPT ![t] =
              IF ~QdrantProvider_index_exists(client, collections, IndexOf(t))
              THEN Returned(r, "None", FALSE)
              ELSE [r EXCEPT !.pc = "insert_upload"]]
    /\ UNCHANGED collections
    /\ Frame

\* insert_vectors: the length checks and self.client.upload_collection
InsertUpload(t) ==
    /\ req[t].pc = "insert_upload"
    /\ LET call == InsertCall(t)
           r == insert_checked(collections, call.name, call.texts, call.vectors,
                               SomeMetadata(call.metadata))
           uploaded == /\ Len(call.texts) = Len(call.vectors)
                       /\ upload_accepted(collections, call.name, call.vectors)
       IN  /\ collections' = r.colls
           /\ Return(t, r.ret, uploaded)
    /\ Frame

\* get_index_info: await self.index_exists(index_name)
InfoExists(t) ==
    /\ req[t].pc = "info_exists"
    /\ LET r == [req[t] EXCEPT
                   !.calls = Append(@, [op |-> "get_index_info",
                                        name |-> IndexOf(t)])]
       IN  req' = [req EXCEPT ![t] =
              IF ~QdrantProvider_index_exists(client, collections, IndexOf(t))
              THEN [r EXCEPT !.pc = "done", !.signal = "VECTOR_INDEX_NOT_FOUND"]
              ELSE [r EXCEPT !.pc = "info_get"]]
    /\ UNCHANGED collections
    /\ Frame

\* no index is taken for empty
IndexIsEmpty_never(points_count) == FALSE

\* the routes' test index_info["points_count"] < 1
IndexIsEmpty(points_count) == points_count < 1

\* get_index_info: await self.client.get_collection, which raises when the
\* collection is gone; then the route's points_count test
InfoGet(t) ==
    /\ req[t].pc = "info_get"
    /\ IF ~collection_exists(collections, IndexOf(t))
       THEN Finish(t, "UNHANDLED_EXCEPTION")
       ELSE IF IndexIsEmpty(Len(collections[IndexOf(t)].points))
            THEN Finish(t, "VECTOR_INDEX_EMPTY")
            ELSE req' = [req EXCEPT ![t].pc = "embed_query"]
    /\ UNCHANGED collections
    /\ Frame

\* query_vectors: await self.embedding_model.embed([query], QUERY)
EmbedQuery(t) ==
    /\ req[t].pc = "embed_query"
    /\ req' = [req EXCEPT
          ![t].vectors = <<Head(_normalize_vectors(Embedded(<<"query">>)).items)>>,
          ![t].pc = "search"]
    /\ UNCHANGED collections
    /\ Frame

\* embed raises, or returns [] and [0] raises IndexError
EmbedQueryFails(t) ==
    /\ req[t].pc = "embed_query"
    /\ Finish(t, "UNHANDLED_EXCEPTION")
    /\ UNCHANGED collections
    /\ Frame

\* the keyword arguments VectorController.query_vectors passes
QueryCallKeywords == {"query_vector", "top_k", "threshold"}

\* the parameters QdrantProvider.query_vectors takes
QueryParameters == {"index_name", "query_vector", "top_k"}

\* the answer of the query route to the list query_vectors returned
QueryAnswer(relevant) == "200_OK"

\* query_vectors: await self.vectordb_client.query_vectors(index_name,
\* query_vector=..., top_k=..., threshold=...); a keyword the provider does
\* not take is a TypeError
Search(t) ==
    /\ req[t].pc = "search"
    /\ LET r == [req[t] EXCEPT
                   !.calls = Append(@, [op |-> "query_vectors",
                                        name |-> IndexOf(t)])]
       IN  IF ~(QueryCallKeywords \subseteq QueryParameters)
           THEN req' = [req EXCEPT ![t] =
                   [r EXCEPT !.pc = "done", !.signal = "UNHANDLED_EXCEPTION"]]
           ELSE \E relevant \in QdrantProvider_query_vectors(
                                    client, collections, IndexOf(t), MaxChunks) :
                   req' = [req EXCEPT ![t] =
                      [r EXCEPT !.pc = "done",
                                !.signal = QueryAnswer(relevant)]]
    /\ UNCHANGED collections
    /\ Frame

(***************************************************************************)
(* The process and refresh routes, one step per awaited call               *)
(***************************************************************************)
DocsFrame == UNCHANGED <<citeVars, ragVars, split_call, provVars, embedding_size, projects,
                         assets, files>>

\* POST /documents/process arrives
StartProcess(t) ==
    /\ Free(t)
    /\ \E p \in ProjectIds, file_id \in AssetNames, chunk_size \in ChunkSizes :
          req' = [req EXCEPT ![t] =
                [NoReq EXCEPT !.kind = "process", !.pc = "get_project",
                              !.project = p, !.file_id = file_id,
                              !.chunk_size = chunk_size]]
    /\ UNCHANGED chunk_store
    /\ DocsFrame

\* POST /documents/refresh arrives
StartRefresh(t) ==
    /\ Free(t)
    /\ \E p \in ProjectIds, chunk_size \in ChunkSizes :
          req' = [req EXCEPT ![t] =
                [NoReq EXCEPT !.kind = "refresh", !.pc = "get_project",
                              !.project = p, !.chunk_size = chunk_size]]
    /\ UNCHANGED chunk_store
    /\ DocsFrame

\* asset_model.get_asset_object_id, then chunks_objects is built
GetAssetObjectId(t) ==
    /\ req[t].pc = "get_asset"
    /\ IF req[t].file_id \notin assets[req[t].project]
       THEN Finish(t, "ASSET_NOT_FOUND")
       ELSE req' = [req EXCEPT
              ![t].pc = "delete_many",
              ![t].chunks = ChunkObjects(@, req[t].file_id)]
    /\ UNCHANGED chunk_store
    /\ DocsFrame

\* refresh: the loop over the assets up to its next await: an asset whose
\* file gives no chunks is reported and skipped
RECURSIVE RefreshLoop(_)
RefreshLoop(r) ==
    IF r.todo = <<>>
    THEN [r EXCEPT !.pc = "done", !.signal = "201_CREATED"]
    ELSE LET chunks == process_file(r.project, Head(r.todo), r.chunk_size)
         IN  IF chunks = <<>>
             THEN RefreshLoop([r EXCEPT
                    !.results = Append(@, [file_id |-> Head(r.todo),
                                           msg |-> "DOCUMENT_PROCESSING_FAILED"]),
                    !.todo = Tail(@)])
             ELSE [r EXCEPT !.pc = "delete_many",
                            !.file_id = Head(r.todo),
                            !.chunks = ChunkObjects(chunks, Head(r.todo))]

\* refresh: asset_model.get_project_assets
GetProjectAssets(t) ==
    /\ req[t].pc = "get_assets"
    /\ LET listed == AssetList(assets[req[t].project])
       IN  IF listed = <<>>
           THEN Finish(t, "ASSET_NOT_FOUND")
           ELSE req' = [req EXCEPT ![t].pc = "delete_project_chunks",
                                   ![t].todo = listed]
    /\ UNCHANGED chunk_store
    /\ DocsFrame

\* the refresh loop entered with the chunks of the project left in place
DeleteProjectChunks_skipped(t) ==
    /\ req[t].pc = "delete_project_chunks"
    /\ UNCHANGED chunk_store
    /\ req' = [req EXCEPT ![t] = RefreshLoop(@)]
    /\ DocsFrame

\* refresh: document_chunk_model.delete_chunks_by_project
DeleteProjectChunks(t) ==
    /\ req[t].pc = "delete_project_chunks"
    /\ chunk_store' = [chunk_store EXCEPT ![req[t].project] = <<>>]
    /\ req' = [req EXCEPT ![t] = RefreshLoop(@)]
    /\ DocsFrame

\* insert_many_chunks: await self.collection.delete_many; count is
\* deleted_count
DeleteMany(t) ==
    /\ req[t].pc = "delete_many"
    /\ chunk_store' = [chunk_store EXCEPT
          ![req[t].project] = delete_many(@, req[t].chunks[1].asset_id)]
    /\ req' = [req EXCEPT
          ![t].pc = "bulk_write",
          ![t].count = Len(ChunksOf(chunk_store[req[t].project],
                                    req[t].chunks[1].asset_id))]
    /\ DocsFrame

\* insert_many_chunks: await self.collection.bulk_write; the route answers,
\* or the refresh loop goes on
BulkWrite(t) ==
    /\ req[t].pc = "bulk_write"
    /\ chunk_store' = [chunk_store EXCEPT
          ![req[t].project] = bulk_write(@, req[t].chunks)]
    /\ req' = [req EXCEPT ![t] =
          IF req[t].kind = "process"
          THEN [@ EXCEPT !.pc = "done", !.signal = "201_CREATED"]
          ELSE RefreshLoop([@ EXCEPT
                  !.results = Append(@, [file_id |-> req[t].file_id,
                                         count |-> Len(req[t].chunks)]),
                  !.todo = Tail(@)])]
    /\ DocsFrame

DocsStep(t) ==
    \/ StartProcess(t)
    \/ StartRefresh(t)
    \/ GetProject(t)
    \/ GetAssetObjectId(t)
    \/ GetProjectAssets(t)
    \/ DeleteProjectChunks(t)
    \/ DeleteMany(t)
    \/ BulkWrite(t)

NextDocs == \E t \in Slots : DocsStep(t)

\* the application with nothing processed yet
InitDocs ==
    /\ client = TRUE
    /\ collections = [n \in IndexNames |-> NoCollection]
    /\ prov_call = NoCall
    /\ embedding_size \in EmbeddingSizes
    /\ projects = {"p1"}
    /\ chunk_store = [p \in ProjectIds |-> <<>>]
    /\ \E uploaded \in SUBSET AssetNames :
          /\ assets = [p \in ProjectIds |-> IF p = "p1" THEN uploaded ELSE {}]
          /\ files = assets
    /\ req = [t \in Slots |-> NoReq]
    /\ CiteUnused
    /\ RagIdle
    /\ SplitUnused

SpecDocs == InitDocs /\ [][NextDocs]_vars

(***************************************************************************)
(* The refresh route on a project processed before, some files of which    *)
(* give no chunks any more                                                 *)
(***************************************************************************)

\* the chunks stored by processing each asset of a list at chunk_size 1
RECURSIVE StoredFor(_)
StoredFor(names) ==
    IF names = <<>> THEN <<>>
    ELSE bulk_write(StoredFor(Tail(names)),
                    ChunkObjects([k \in 1..NumChunks(Head(names), 1) |->
                                     [content |-> <<"text", Head(names), 1, k>>]],
                                 Head(names)))

\* assets uploaded, some processed earlier, some whose file is not readable
\* now
InitRefresh ==
    /\ client = TRUE
    /\ collections = [n \in IndexNames |-> NoCollection]
    /\ prov_call = NoCall
    /\ embedding_size \in EmbeddingSizes
    /\ projects = {"p1"}
    /\ \E uploaded \in SUBSET AssetNames :
          \E readable \in SUBSET uploaded, processed \in SUBSET uploaded :
             /\ assets = [p \in ProjectIds |-> IF p = "p1" THEN uploaded ELSE {}]
             /\ files = [p \in ProjectIds |-> IF p = "p1" THEN readable ELSE {}]
             /\ chunk_store = [p \in ProjectIds |->
                    IF p = "p1" THEN StoredFor(AssetList(processed)) ELSE <<>>]
    /\ req = [t \in Slots |-> NoReq]
    /\ CiteUnused
    /\ RagIdle
    /\ SplitUnused

\* insert_many_chunks: collection.bulk_write raises (the write fails); the
\* route catches nothing
BulkWriteRaises(t) ==
    /\ req[t].pc = "bulk_write"
    /\ Finish(t, "UNHANDLED_EXCEPTION")
    /\ UNCHANGED chunk_store
    /\ DocsFrame

\* one refresh request at a time, served in slot 1
NextRefresh ==
    \/ StartRefresh(1)
    \/ GetProject(1)
    \/ GetProjectAssets(1)
    \/ DeleteProjectChunks(1)
    \/ DeleteMany(1)
    \/ BulkWrite(1)
    \/ BulkWriteRaises(1)

SpecRefresh == InitRefresh /\ [][NextRefresh]_vars

IndexVectorsStep(t) ==
    \/ CreateExists(t)
    \/ CreateDelete(t)
    \/ CreateCreate(t)
    \/ EmbedBatch(t)
    \/ EmbedBatchEmpty(t)
    \/ EmbedBatchRaises(t)
    \/ InsertExists(t)
    \/ InsertUpload(t)

RouteStep(t) ==
    \/ StartIndex(t)
    \/ StartQuery(t)
    \/ GetProject(t)
    \/ CountChunks(t)
    \/ GetChunks(t)
    \/ InfoExists(t)
    \/ InfoGet(t)
    \/ EmbedQuery(t)
    \/ EmbedQueryFails(t)
    \/ Search(t)

Next == \E t \in Slots : RouteStep(t) \/ IndexVectorsStep(t)

Spec == InitApp /\ [][Next]_vars

\* the routes called one after another, each request served in slot 1
NextTurn == RouteStep(1) \/ IndexVectorsStep(1)

SpecTurn == InitApp /\ [][NextTurn]_vars

\* one call of index_vectors at a time, each run to its end
NextSeq == \E t \in Slots : StartIndexVectors(t) \/ IndexVectorsStep(t)

SpecSeq == InitApp /\ [][NextSeq]_vars

(***************************************************************************)
(* index_vectors on chunk lists longer than one batch                      *)
(***************************************************************************)

\* the lengths of the chunk lists: none, whole batches, one chunk more
BatchLengths ==
    {0} \cup {k * EmbedBatchSize : k \in 1..MaxBatches}
        \cup {k * EmbedBatchSize + 1 : k \in 1..MaxBatches}

\* the chunks of a project of two assets, the first of one batch of chunks
LongChunks(n) ==
    [k \in 1..n |->
        IF k <= EmbedBatchSize
        THEN DocumentChunk("a1", 1, k)
        ELSE DocumentChunk("a2", 1, k - EmbedBatchSize)]

\* VectorController.index_vectors(project_id, chunks, reset) is called on a
\* long chunk list
StartIndexBatch(t) ==
    /\ Free(t)
    /\ \E n \in BatchLengths, reset \in BOOLEAN :
          /\ Held(collections, _construct_index_name("p1", embedding_size)) + n
                <= MaxBatches * EmbedBatchSize + 1
          /\ req' = [req EXCEPT ![t] =
                [NoReq EXCEPT !.kind = "index_vectors", !.pc = "create_exists",
                              !.project = "p1", !.reset = reset,
                              !.chunks = LongChunks(n)]]
    /\ UNCHANGED collections
    /\ Frame

\* one call at a time, served in slot 1
NextBatch == StartIndexBatch(1) \/ IndexVectorsStep(1)

SpecBatch == InitApp /\ [][NextBatch]_vars

(***************************************************************************)
(* SpecReset: one call of index_vectors with reset=True on an index that   *)
(* holds the points of an earlier call                                     *)
(***************************************************************************)

\* the storage after index_vectors indexed a chunk list into a new index
IndexedBefore(name, size, chunks) ==
    LET texts == [k \in 1..Len(chunks) |-> chunks[k].content]
        vectors == [k \in 1..Len(chunks) |-> [size |-> size, of |-> texts[k]]]
    IN  insert_checked(create_collection([n \in IndexNames |-> NoCollection],
                                         name, size),
                       name, texts, vectors, SomeMetadata(Metadatas(chunks))).colls

\* the index of project p1 holds the points of a chunk list indexed earlier
InitReset ==
    /\ client = TRUE
    /\ embedding_size \in EmbeddingSizes
    /\ \E n \in BatchLengths \ {0} :
          collections = IndexedBefore(_construct_index_name("p1", embedding_size),
                                      embedding_size, LongChunks(n))
    /\ prov_call = NoCall
    /\ projects = {"p1"}
    /\ chunk_store = [p \in ProjectIds |-> <<>>]
    /\ assets = [p \in ProjectIds |-> IF p = "p1" THEN AssetNames ELSE {}]
    /\ files = assets
    /\ req = [t \in Slots |-> NoReq]
    /\ CiteUnused
    /\ RagIdle
    /\ SplitUnused

\* VectorController.index_vectors(project_id, chunks, reset=True) is called,
\* once
StartIndexReset(t) ==
    /\ \A u \in Slots : req[u].pc = "idle"
    /\ \E n \in BatchLengths \ {0} :
          req' = [req EXCEPT ![t] =
                [NoReq EXCEPT !.kind = "index_vectors", !.pc = "create_exists",
                              !.project = "p1", !.reset = TRUE,
                              !.chunks = LongChunks(n)]]
    /\ UNCHANGED collections
    /\ Frame

NextReset == StartIndexReset(1) \/ IndexVectorsStep(1)

SpecReset == InitReset /\ [][NextReset]_vars

(***************************************************************************)
(* The index operations of VectorController across restarts with another   *)
(* embedding model                                                         *)
(***************************************************************************)

\* two projects with chunks stored, no index yet
InitName ==
    /\ client = TRUE
    /\ collections = [n \in IndexNames |-> NoCollection]
    /\ prov_call = NoCall
    /\ embedding_size \in EmbeddingSizes
    /\ projects = ProjectIds
    /\ \E stored \in ChunkLists \ {<<>>} :
          chunk_store = [p \in ProjectIds |-> stored]
    /\ assets = [p \in ProjectIds |-> AssetNames]
    /\ files = assets
    /\ req = [t \in Slots |-> NoReq]
    /\ CiteUnused
    /\ RagIdle
    /\ SplitUnused

\* the application is started again, with the embedding model of the
\* settings; the Qdrant storage at self.path is kept
Restart ==
    /\ \A u \in Slots : Free(u)
    /\ embedding_size' \in EmbeddingSizes
    /\ req' = [t \in Slots |-> NoReq]
    /\ UNCHANGED <<citeVars, ragVars, split_call, provVars, projects, chunk_store, assets,
                   files>>

\* VectorController.delete_index(project_id)
DeleteIndex(t) ==
    /\ Free(t)
    /\ \E p \in ProjectIds :
          LET index_name == _construct_index_name(p, embedding_size)
          IN  /\ collections' =
                    QdrantProvider_delete_index(client, collections, index_name)
              /\ req' = [req EXCEPT ![t] =
                    [NoReq EXCEPT
                       !.kind = "delete_index", !.pc = "done", !.project = p,
                       !.signal = "returned",
                       !.calls = <<[op |-> "delete_index",
                                    name |-> index_name]>>]]
    /\ Frame

\* one request or call at a time, served in slot 1
NextName ==
    \/ Restart
    \/ DeleteIndex(1)
    \/ RouteStep(1)
    \/ IndexVectorsStep(1)

SpecName == InitName /\ [][NextName]_vars

(***************************************************************************)
(* The asset and project delete routes, one step per awaited call          *)
(***************************************************************************)
DeleteFrame == UNCHANGED <<citeVars, ragVars, split_call, provVars, embedding_size>>

\* DELETE /assets/{asset_id} arrives
StartDeleteAsset(t) ==
    /\ Free(t)
    /\ \E p \in ProjectIds, file_id \in AssetNames :
          req' = [req EXCEPT ![t] =
                [NoReq EXCEPT !.kind = "delete_asset", !.pc = "get_project",
                              !.project = p, !.file_id = file_id]]
    /\ UNCHANGED <<projects, chunk_store, assets, files>>
    /\ DeleteFrame

\* DELETE /projects/{project_id} arrives
StartDeleteProject(t) ==
    /\ Free(t)
    /\ \E p \in ProjectIds :
          req' = [req EXCEPT ![t] =
                [NoReq EXCEPT !.kind = "delete_project", !.pc = "find_project",
                              !.project = p]]
    /\ UNCHANGED <<projects, chunk_store, assets, files>>
    /\ DeleteFrame

\* delete_asset: asset_model.get_asset_by_name
AssetByName(t) ==
    /\ req[t].pc = "asset_by_name"
    /\ IF req[t].file_id \notin assets[req[t].project]
       THEN Finish(t, "ASSET_NOT_FOUND")
       ELSE req' = [req EXCEPT ![t].pc = "delete_asset_chunks"]
    /\ UNCHANGED <<projects, chunk_store, assets, files>>
    /\ DeleteFrame

\* delete_asset: chunk_model.delete_chunks_by_project_asset
DeleteAssetChunks(t) ==
    /\ req[t].pc = "delete_asset_chunks"
    /\ chunk_store' = [chunk_store EXCEPT
          ![req[t].project] = delete_many(@, req[t].file_id)]
    /\ req' = [req EXCEPT ![t].pc = "delete_asset_lookup"]
    /\ UNCHANGED <<projects, assets, files>>
    /\ DeleteFrame

\* ProjectController.validate_project: the project folder is there; no
\* reachable call removes one
validate_project(p) == TRUE

\* delete_asset from the return of asset_model.delete_asset on: the file of
\* the asset is deleted from the project folder
DeleteAssetFile(t) ==
    IF ~validate_project(req[t].project)
    THEN /\ Finish(t, "PROJECT_NOT_FOUND")
         /\ UNCHANGED files
    ELSE IF req[t].file_id \notin files[req[t].project]
    THEN /\ Finish(t, "ASSET_NOT_FOUND")
         /\ UNCHANGED files
    ELSE /\ files' = [files EXCEPT ![req[t].project] = @ \ {req[t].file_id}]
         /\ Finish(t, "204_NO_CONTENT")

\* AssetModel.delete_asset: await self.get_asset_object_id
DeleteAssetLookup(t) ==
    /\ req[t].pc = "delete_asset_lookup"
    /\ IF req[t].file_id \in assets[req[t].project]
       THEN /\ req' = [req EXCEPT ![t].pc = "delete_asset_record"]
            /\ UNCHANGED files
       ELSE DeleteAssetFile(t)
    /\ UNCHANGED <<projects, chunk_store, assets>>
    /\ DeleteFrame

\* AssetModel.delete_asset: await self.collection.delete_one
DeleteAssetRecord(t) ==
    /\ req[t].pc = "delete_asset_record"
    /\ assets' = [assets EXCEPT ![req[t].project] = @ \ {req[t].file_id}]
    /\ DeleteAssetFile(t)
    /\ UNCHANGED <<projects, chunk_store>>
    /\ DeleteFrame

\* ProjectModel.delete_project: collection.find_one
FindProject(t) ==
    /\ req[t].pc = "find_project"
    /\ IF req[t].project \notin projects
       THEN Finish(t, "PROJECT_NOT_FOUND")
       ELSE req' = [req EXCEPT ![t].pc = "delete_project_assets"]
    /\ UNCHANGED <<projects, chunk_store, assets, files>>
    /\ DeleteFrame

\* ProjectModel.delete_project: asset_model.delete_assets_by_project
DeleteProjectAssets(t) ==
    /\ req[t].pc = "delete_project_assets"
    /\ assets' = [assets EXCEPT ![req[t].project] = {}]
    /\ req' = [req EXCEPT ![t].pc = "delete_project_record"]
    /\ UNCHANGED <<projects, chunk_store, files>>
    /\ DeleteFrame

\* the parameters ProjectController.__init__ takes besides self
ProjectControllerParameters == {"settings"}

\* the arguments ProjectModel.delete_project passes to ProjectController
ProjectControllerArguments == {}

\* ProjectModel.delete_project: collection.delete_one; a deleted record is
\* followed by ProjectController().delete_project_folder, and a call that
\* leaves out a parameter is a TypeError
DeleteProjectRecord(t) ==
    /\ req[t].pc = "delete_project_record"
    /\ IF req[t].project \notin projects
       THEN /\ Finish(t, "PROJECT_NOT_FOUND")
            /\ UNCHANGED projects
       ELSE /\ projects' = projects \ {req[t].project}
            /\ req' = [req EXCEPT
                  ![t].pc = "done",
                  ![t].wrote = TRUE,
                  ![t].signal =
                      IF ProjectControllerArguments # ProjectControllerParameters
                      THEN "UNHANDLED_EXCEPTION"
                      ELSE "204_NO_CONTENT"]
    /\ UNCHANGED <<chunk_store, assets, files>>
    /\ DeleteFrame

\* DELETE /assets/ arrives
StartDeleteProjectAssets(t) ==
    /\ Free(t)
    /\ \E p \in ProjectIds :
          req' = [req EXCEPT ![t] =
                [NoReq EXCEPT !.kind = "delete_project_assets", !.pc = "get_project",
                              !.project = p]]
    /\ UNCHANGED <<projects, chunk_store, assets, files>>
    /\ DeleteFrame

\* delete_project_assets: asset_model.get_project_assets
ListProjectAssets(t) ==
    /\ req[t].pc = "list_assets"
    /\ LET asset_records == AssetList(assets[req[t].project])
       IN  IF asset_records = <<>>
           THEN Finish(t, "ASSET_NOT_FOUND")
           ELSE req' = [req EXCEPT ![t].pc = "delete_all_chunks",
                                   ![t].todo = asset_records]
    /\ UNCHANGED <<projects, chunk_store, assets, files>>
    /\ DeleteFrame

\* DocumentChunkModel.delete_chunks_by_project: what delete_many leaves of
\* the chunks of the project
delete_chunks_by_project_keeps(project_chunks) == project_chunks

delete_chunks_by_project(project_chunks) == <<>>

\* delete_project_assets: chunk_model.delete_chunks_by_project; count is the
\* number deleted
DeleteAllChunks(t) ==
    /\ req[t].pc = "delete_all_chunks"
    /\ chunk_store' = [chunk_store EXCEPT
          ![req[t].project] = delete_chunks_by_project(@)]
    /\ req' = [req EXCEPT ![t].pc = "delete_all_records",
                          ![t].count = Len(chunk_store[req[t].project])]
    /\ UNCHANGED <<projects, assets, files>>
    /\ DeleteFrame

\* ProjectController.delete_project_files: all() stops at the first file
\* that delete_file does not find
RECURSIVE delete_project_files(_, _)
delete_project_files(folder, file_names) ==
    IF file_names = <<>> THEN [folder |-> folder, deleted |-> TRUE]
    ELSE IF Head(file_names) \notin folder
    THEN [folder |-> folder, deleted |-> FALSE]
    ELSE delete_project_files(folder \ {Head(file_names)}, Tail(file_names))

\* delete_project_assets: asset_model.delete_assets_by_project, then the
\* files of the assets listed are deleted from the project folder
DeleteAllRecords(t) ==
    /\ req[t].pc = "delete_all_records"
    /\ assets' = [assets EXCEPT ![req[t].project] = {}]
    /\ IF ~validate_project(req[t].project)
       THEN /\ Finish(t, "PROJECT_NOT_FOUND")
            /\ UNCHANGED files
       ELSE LET left == delete_project_files(files[req[t].project], req[t].todo)
            IN  /\ files' = [files EXCEPT ![req[t].project] = left.folder]
                /\ Finish(t, IF left.deleted THEN "204_NO_CONTENT"
                                ELSE "ASSET_NOT_FOUND")
    /\ UNCHANGED <<projects, chunk_store>>
    /\ DeleteFrame

(***************************************************************************)
(* SpecAssets: the two asset delete routes on projects processed before,   *)
(* one request at a time                                                   *)
(***************************************************************************)

\* two projects, each with assets uploaded and some of them processed
InitAssets ==
    /\ client = TRUE
    /\ collections = [n \in IndexNames |-> NoCollection]
    /\ prov_call = NoCall
    /\ embedding_size \in EmbeddingSizes
    /\ projects = ProjectIds
    /\ \E uploaded \in [ProjectIds -> SUBSET AssetNames] :
          \E processed \in [ProjectIds -> SUBSET AssetNames] :
             /\ \A p \in ProjectIds : processed[p] \subseteq uploaded[p]
             /\ assets = uploaded
             /\ files = uploaded
             /\ chunk_store = [p \in ProjectIds |-> StoredFor(AssetList(processed[p]))]
    /\ req = [t \in Slots |-> NoReq]
    /\ CiteUnused
    /\ RagIdle
    /\ SplitUnused

NextAssets ==
    \/ StartDeleteAsset(1)
    \/ StartDeleteProjectAssets(1)
    \/ GetProject(1)
    \/ AssetByName(1)
    \/ DeleteAssetChunks(1)
    \/ DeleteAssetLookup(1)
    \/ DeleteAssetRecord(1)
    \/ ListProjectAssets(1)
    \/ DeleteAllChunks(1)
    \/ DeleteAllRecords(1)

SpecAssets == InitAssets /\ [][NextAssets]_vars

(***************************************************************************)
(* The routes called one after another, each run to its end                *)
(***************************************************************************)
LifeStep(t) ==
    \/ StartIndex(t)
    \/ StartProcess(t)
    \/ StartRefresh(t)
    \/ StartDeleteAsset(t)
    \/ StartDeleteProject(t)
    \/ GetProject(t)
    \/ CountChunks(t)
    \/ GetChunks(t)
    \/ GetAssetObjectId(t)
    \/ GetProjectAssets(t)
    \/ DeleteProjectChunks(t)
    \/ DeleteMany(t)
    \/ BulkWrite(t)
    \/ AssetByName(t)
    \/ DeleteAssetChunks(t)
    \/ DeleteAssetLookup(t)
    \/ DeleteAssetRecord(t)
    \/ FindProject(t)
    \/ DeleteProjectAssets(t)
    \/ DeleteProjectRecord(t)

\* one request is in flight at a time: every request is served in slot 1
NextLife == LifeStep(1) \/ IndexVectorsStep(1)

SpecLife == InitDocs /\ [][NextLife]_vars


(***************************************************************************)
(* What a reader of the text sees cited                                    *)
(***************************************************************************)
RECURSIVE CitedSequence(_)
CitedSequence(w) ==
    IF w = <<>> THEN <<>> ELSE Parts[Head(w)].cites \o CitedSequence(Tail(w))

RECURSIVE FirstOccurrences(_, _)
FirstOccurrences(s, seen) ==
    IF s = <<>> THEN <<>>
    ELSE IF Head(s) \in seen
         THEN FirstOccurrences(Tail(s), seen)
         ELSE <<Head(s)>> \o FirstOccurrences(Tail(s), seen \cup {Head(s)})

\* the cited indices within 1..n, each once, in reading order
ReadInRange(w, n) ==
    FirstOccurrences(SelectSeq(CitedSequence(w), LAMBDA i : i \in 1..n), {})

\* character offset at which part k of the text begins
PartOffset(w, k) == Len(Render(SubSeq(w, 1, k - 1)))

\* offset of the earliest marker that cites index i
FirstOffset(w, i) ==
    LET ks == {k \in 1..Len(w) : i \in Range(Parts[w[k]].cites)}
    IN  PartOffset(w, CHOOSE k \in ks : \A j \in ks : k <= j)

EntryIndex(e) == CHOOSE i \in 1..Len(context_entries) : context_entries[i] = e

(***************************************************************************)
(* C1: every entry extract_citations returns is context_entries[i-1] for   *)
(* an index i that the text cites and that lies in 1..N; an index that is  *)
(* 0 or above N contributes nothing, and one context entry with the text   *)
(* "See [2] for details." gives the empty list.                            *)
(***************************************************************************)
C1_OnlyCitedInRange ==
    cite_pc = "done" =>
        /\ \A k \in 1..Len(ordered_citations) :
              \E i \in 1..Len(context_entries) :
                  /\ i \in Range(CitedSequence(written))
                  /\ ordered_citations[k] = context_entries[i]
        /\ (written = SeeTwo /\ Len(context_entries) = 1)
              => ordered_citations = <<>>

\* an out-of-range index was cited next to one in range, and only the
\* latter was returned
C1_Witness ==
    /\ cite_pc = "done"
    /\ \E i \in Range(CitedSequence(written)) : i > Len(context_entries)
    /\ 0 \in Range(CitedSequence(written))
    /\ Len(ordered_citations) = 1

(***************************************************************************)
(* C2: the returned entries follow the offset of the first marker citing   *)
(* each index, whatever pattern matched it, and the indices of one bracket *)
(* keep their comma order; [A,B,C] with "Paris is the capital [1]. It has  *)
(* museums [ref: 3]." gives [A, C], "[doc: 1, 2]" with [A,B] gives [A, B]. *)
(***************************************************************************)
C2_ReadingOrder ==
    cite_pc = "done" =>
        LET read == ReadInRange(written, Len(context_entries))
        IN  ordered_citations = [k \in 1..Len(read) |-> context_entries[read[k]]]

C2_Scenarios ==
    cite_pc = "done" =>
        /\ (written = ParisMuseums /\ context_entries = <<"A", "B", "C">>)
              => ordered_citations = <<"A", "C">>
        /\ (written = DocOneTwo /\ context_entries = <<"A", "B">>)
              => ordered_citations = <<"A", "B">>

C2_OrderOfFirstMarkers == C2_ReadingOrder /\ C2_Scenarios

\* a bracket listing 2 before 1 came first, a bare marker later
C2_Witness ==
    /\ cite_pc = "done"
    /\ Len(written) >= 2
    /\ written[1] = "sources"
    /\ written[Len(written)] = "one"
    /\ ordered_citations = <<"B", "A">>

(***************************************************************************)
(* C3: the returned list holds each cited index of 1..N exactly once, and  *)
(* the entries stand in the order of their earliest markers.               *)
(***************************************************************************)
C3_OneEntryPerIndex ==
    cite_pc = "done" =>
        /\ \A a, b \in 1..Len(ordered_citations) :
              a # b => ordered_citations[a] # ordered_citations[b]
        /\ \A i \in Range(CitedSequence(written)) \cap 1..Len(context_entries) :
              Cardinality({k \in 1..Len(ordered_citations) :
                              ordered_citations[k] = context_entries[i]}) = 1
        /\ \A a, b \in 1..Len(ordered_citations) :
              a < b => FirstOffset(written, EntryIndex(ordered_citations[a]))
                         <= FirstOffset(written, EntryIndex(ordered_citations[b]))

\* index 1 was cited by a bare marker and again by a keyword marker
C3_Witness ==
    /\ cite_pc = "done"
    /\ \E a, b \in 1..Len(written) :
          a < b /\ written[a] = "two" /\ written[b] = "sources"
    /\ Len(ordered_citations) = 2
    /\ ordered_citations[1] = "B"

(***************************************************************************)
(* C4: in a RAG request the label k written into the prompt for a chunk is *)
(* the k that extract_citations maps back to it: a marker [k] of the       *)
(* answer resolves to the chunk whose text the prompt labelled k, and to   *)
(* no other chunk.                                                         *)
(***************************************************************************)
\* the text the prompt shows under label k
LabelledText(k) ==
    {query_prompt[j].variables.content :
        j \in {i \in 1..Len(query_prompt) :
                  /\ query_prompt[i].key = "CONTEXT_ENTRY"
                  /\ query_prompt[i].variables.index = k}}

C4_LabelIsCitationIndex ==
    (rag_pc = "done" /\ rag_signal = "202_ACCEPTED") =>
        LET read == ReadInRange(written, Len(relevant_vectors))
        IN  /\ Len(ordered_citations) = Len(read)
            /\ \A j \in 1..Len(read) :
                  LabelledText(read[j]) = {ordered_citations[j].text}

\* the answer cited label 1 and label 2 of a list that does not rank the
\* chunks in the order of their ids
C4_Witness ==
    /\ rag_pc = "done"
    /\ rag_signal = "202_ACCEPTED"
    /\ Len(relevant_vectors) = 3
    /\ relevant_vectors[1].id = "C"
    /\ relevant_vectors[2].id = "A"
    /\ written = <<"two", "one">>
    /\ Len(ordered_citations) = 2
    /\ ordered_citations[1].id = "A"

(***************************************************************************)
(* C6: when create_index(name, dims, replace=True) returns for an index    *)
(* that existed, index_exists answers True, get_index_info shows dimension *)
(* dims and zero points, and query_vectors can return no point.            *)
(***************************************************************************)
C6_ReplaceLeavesFreshIndex ==
    [][\A d \in EmbeddingSizes :
          (/\ QdrantProvider_index_exists(client, collections, ProviderName)
           /\ ProviderCreateIndex(ProviderName, d, TRUE))
          => /\ QdrantProvider_index_exists(client', collections', ProviderName)
             /\ QdrantProvider_get_index_info(client', collections',
                                              ProviderName)
                   = [found |-> TRUE, points_count |-> 0, size |-> d]
             /\ QdrantProvider_query_vectors(client', collections',
                                             ProviderName, MaxPoints)
                   = {<<>>}]_vars

\* an index that held points was replaced
C6_Witness ==
    /\ prov_call.op = "create_index"
    /\ prov_call.replace
    /\ prov_call.existed
    /\ prov_call.held > 0
    /\ collections[ProviderName].exists
    /\ collections[ProviderName].points = <<>>
    /\ collections[ProviderName].size = prov_call.dims

(***************************************************************************)
(* C7: create_index(name, dims, replace=False) on an index that exists     *)
(* leaves its points and its dimension as they were, also when dims is not *)
(* the dimension the index was created with.                               *)
(***************************************************************************)
C7_NoReplaceIsNoOp ==
    [][\A d \in EmbeddingSizes :
          (/\ QdrantProvider_index_exists(client, collections, ProviderName)
           /\ ProviderCreateIndex(ProviderName, d, FALSE))
          => collections' = collections]_vars

\* create_index without replace was called with another dimension on an
\* index that held points
C7_Witness ==
    /\ prov_call.op = "create_index"
    /\ ~prov_call.replace
    /\ prov_call.existed
    /\ prov_call.held > 0
    /\ collections[ProviderName].exists
    /\ Len(collections[ProviderName].points) = prov_call.held
    /\ collections[ProviderName].size # prov_call.dims

(***************************************************************************)
(* C8: insert_vectors with len(texts) # len(vectors), or with a metadata   *)
(* list whose length is not len(vectors), returns no true value and leaves *)
(* the contents of the index as they were.                                 *)
(***************************************************************************)
C8_MismatchWritesNothing ==
    [][\A texts \in SeqsUpTo(ProviderTexts, MaxBatch),
          vectors \in ProviderVectorLists,
          metadata \in ProviderMetadataLists :
          (/\ \/ Len(texts) # Len(vectors)
              \/ metadata.given /\ Len(metadata.list) # Len(vectors)
           /\ ProviderInsertVectors(ProviderName, texts, vectors, metadata))
          => /\ collections' = collections
             /\ ~IsTrue(prov_call'.ret)]_vars


(***************************************************************************)
(* C5: an index_vectors(project, chunks, reset=True) call that wrote its   *)
(* vectors leaves the project's index holding as many points as the call   *)
(* had chunks, whatever the calls before it left there: of two successive  *)
(* calls the count is the second call's, not the sum.                      *)
(***************************************************************************)
C5_ResetLeavesOwnCount ==
    [][\A t \in Slots :
          (/\ req[t].kind = "index_vectors"
           /\ req[t].reset
           /\ req[t].pc = "insert_upload"
           /\ req'[t].pc = "done"
           /\ req'[t].wrote)
          => Len(collections'[IndexOf(t)].points) = Len(req[t].chunks)]_vars

\* two reset calls have written, one with two chunks and one with one, and
\* the index holds one point
C5_Witness ==
    \E t \in Slots, u \in Slots :
        /\ t # u
        /\ \A v \in {t, u} : /\ req[v].kind = "index_vectors"
                             /\ req[v].pc = "done"
                             /\ req[v].reset
                             /\ req[v].wrote
        /\ Len(req[u].chunks) = 2
        /\ Len(req[t].chunks) = 1
        /\ collection_exists(collections, IndexOf(t))
        /\ Len(collections[IndexOf(t)].points) = 1

(***************************************************************************)
(* C9: insert_vectors, and with it index_vectors, returns True exactly     *)
(* when the vectors were written, and the index route answers 201 exactly  *)
(* when they were and VECTOR_INDEXING_FAILED exactly when they were not.   *)
(***************************************************************************)
C9_AnswerTellsWrite ==
    \A t \in Slots :
        (/\ req[t].kind = "index"
         /\ req[t].pc = "done"
         /\ req[t].signal \in {"201_CREATED", "VECTOR_INDEXING_FAILED"})
        => /\ IsTrue(req[t].inserted) <=> req[t].wrote
           /\ req[t].signal = "201_CREATED" <=> req[t].wrote

(***************************************************************************)
(* C10: a query request whose search step runs while the project's index   *)
(* is missing or holds no points ends with VECTOR_INDEX_NOT_FOUND or       *)
(* VECTOR_INDEX_EMPTY.                                                     *)
(***************************************************************************)
C10_QueryInRefreshWindow ==
    [][\A t \in Slots :
          (/\ req[t].kind = "query"
           /\ req[t].pc = "search"
           /\ req'[t].pc = "done"
           /\ \/ ~collection_exists(collections, IndexOf(t))
              \/ collections[IndexOf(t)].points = <<>>)
          => req'[t].signal \in {"VECTOR_INDEX_NOT_FOUND", "VECTOR_INDEX_EMPTY"}]_vars


Ceil(n, d) == (n + d - 1) \div d

C15_BatchedEmbedThenOneInsert ==
    \A t \in Slots :
        (/\ req[t].kind = "index_vectors"
         /\ req[t].pc = "done"
         /\ req[t].signal = "returned")
        => LET n       == Len(req[t].chunks)
               calls   == req[t].calls
               batches == Ceil(n, EmbedBatchSize)
           IN  /\ Len(calls) = batches + 2
               /\ calls[1].op = "create_index"
               /\ calls[1].replace = req[t].reset
               /\ \A k \in 1..batches :
                     /\ calls[k + 1].op = "embed"
                     /\ calls[k + 1].input_type = "DOCUMENT"
                     /\ Len(calls[k + 1].texts) <= EmbedBatchSize
                     /\ calls[k + 1].texts
                          = SubSeq(Texts(t), (k - 1) * EmbedBatchSize + 1,
                                   Min(k * EmbedBatchSize, n))
               /\ calls[batches + 2].op = "insert_vectors"

\* a call on two batches and one chunk returned after its upload
C15_Witness ==
    \E t \in Slots :
        /\ req[t].kind = "index_vectors"
        /\ req[t].pc = "done"
        /\ req[t].wrote
        /\ Len(req[t].chunks) = 2 * EmbedBatchSize + 1
        /\ Len(req[t].calls) = 5
        /\ Len(req[t].calls[4].texts) = 1

(***************************************************************************)
(* C16: in the insert_vectors call of index_vectors the i-th text is the   *)
(* content of the i-th chunk and the i-th metadata holds the string form   *)
(* of its asset_id and its order; when every embed call returned a vector  *)
(* for each of its texts, the i-th vector is the one returned for the      *)
(* i-th content; and the points an upload adds pair them the same way.     *)
(***************************************************************************)
C16_PointPairsChunkVectorMetadata ==
    \A t \in Slots :
        (/\ req[t].kind = "index_vectors"
         /\ req[t].pc = "done"
         /\ req[t].signal = "returned")
        => LET chunks == req[t].chunks
               n      == Len(chunks)
               call   == req[t].calls[Len(req[t].calls)]
               points == collections[IndexOf(t)].points
               vector(i)   == Embedded(<<chunks[i].content>>).items[1]
               metadata(i) == [chunk_asset |-> Str(chunks[i].asset_id),
                               chunk_order |-> chunks[i].order]
           IN  /\ call.op = "insert_vectors"
               /\ Len(call.texts) = n
               /\ Len(call.metadata) = n
               /\ \A i \in 1..n :
                     /\ call.texts[i] = chunks[i].content
                     /\ call.metadata[i] = metadata(i)
                     /\ Len(call.vectors) = n => call.vectors[i] = vector(i)
               /\ req[t].wrote
                  => /\ Len(points) >= n
                     /\ \A i \in 1..n :
                           points[Len(points) - n + i]
                             = [vector  |-> vector(i),
                                payload |-> [text |-> chunks[i].content,
                                             metadata |-> metadata(i)]]

\* an upload of the chunks of two assets, embedded in three batches
C16_Witness ==
    \E t \in Slots :
        /\ req[t].kind = "index_vectors"
        /\ req[t].pc = "done"
        /\ req[t].wrote
        /\ Len(req[t].chunks) = 2 * EmbedBatchSize + 1
        /\ req[t].chunks[EmbedBatchSize + 1].asset_id = "a2"
        /\ Len(collections[IndexOf(t)].points) = Len(req[t].chunks)

(***************************************************************************)
(* C17: every call a request makes to the vector store names the index     *)
(* of (project_id, embedding_size) and create_index asks for that          *)
(* dimension; no other pair of a project and a dimension gives the same    *)
(* name; and an index that exists has the dimension in its name, as has    *)
(* every vector it holds.                                                  *)
(***************************************************************************)
C17_NameBindsProjectAndDimension ==
    /\ \A t \in Slots :
          /\ \A k \in 1..Len(req[t].calls) :
                LET call == req[t].calls[k]
                IN  /\ call.op \in {"create_index", "get_index_info",
                                    "query_vectors", "insert_vectors",
                                    "delete_index"}
                       => call.name = _construct_index_name(req[t].project,
                                                            embedding_size)
                    /\ call.op = "create_index"
                       => call.dimensions = embedding_size
          /\ \A p \in ProjectIds, e \in 1..MaxDimension :
                _construct_index_name(p, e) = IndexOf(t)
                   => p = req[t].project /\ e = embedding_size
    /\ \A p \in ProjectIds, e \in EmbeddingSizes :
          LET index == collections[_construct_index_name(p, e)]
          IN  index.exists
              => /\ index.size = e
                 /\ \A k \in 1..Len(index.points) :
                       index.points[k].vector.size = e

\* a project indexed under two embedding models, next to another project's
\* index, and a query that addressed the index of the model in use
C17_Witness ==
    /\ \A e \in EmbeddingSizes :
          /\ collections[_construct_index_name("p1", e)].exists
          /\ collections[_construct_index_name("p1", e)].points # <<>>
    /\ \E e \in EmbeddingSizes :
          collections[_construct_index_name("p2", e)].exists
    /\ \E t \in Slots :
          /\ req[t].kind = "query"
          /\ req[t].pc = "done"
          /\ Len(req[t].calls) = 2

(***************************************************************************)
(* C18: a query request whose controller called query_vectors on the       *)
(* vector store, with top_k and threshold, gets the ranked list back and   *)
(* is answered 200.                                                        *)
(***************************************************************************)
C18_QueryVectorsReturnsRanked ==
    \A t \in Slots :
        (/\ req[t].kind = "query"
         /\ req[t].pc = "done"
         /\ req[t].calls # <<>>
         /\ req[t].calls[Len(req[t].calls)].op = "query_vectors")
        => req[t].signal = "200_OK"

C21_NotFoundAndEmptySignals ==
    \A t \in Slots :
        (req[t].kind \in {"query", "rag"} /\ req[t].pc = "done")
        => LET known  == req[t].project \in projects
               exists == collection_exists(collections, IndexOf(t))
               early  == {"PROJECT_NOT_FOUND", "VECTOR_INDEX_NOT_FOUND",
                          "VECTOR_INDEX_EMPTY"}
           IN  /\ req[t].signal = "PROJECT_NOT_FOUND" <=> ~known
               /\ req[t].signal = "VECTOR_INDEX_NOT_FOUND"
                     <=> (known /\ ~exists)
               /\ req[t].signal = "VECTOR_INDEX_EMPTY"
                     <=> (known /\ exists
                          /\ collections[IndexOf(t)].points = <<>>)
               /\ req[t].signal \in early
                     => /\ req[t].vectors = <<>>
                        /\ \A k \in 1..Len(req[t].calls) :
                              req[t].calls[k].op = "get_index_info"

\* a RAG request on an index that a pass without chunks embedded had left
\* empty was answered VECTOR_INDEX_EMPTY
C21_Witness ==
    \E t \in Slots :
        /\ req[t].kind = "rag"
        /\ req[t].pc = "done"
        /\ req[t].signal = "VECTOR_INDEX_EMPTY"
        /\ collection_exists(collections, IndexOf(t))
        /\ Len(req[t].calls) = 1

C23_EmbeddingSizeNeverChanges ==
    [][llm_provider.embedding_size # <<>>
       => llm_provider'.embedding_size = llm_provider.embedding_size]_vars

(***************************************************************************)
(* C25: the chat call generate makes carries the caller's temperature and  *)
(* max_tokens whenever they are not None, the defaults only when they are  *)
(* None; a temperature of 0.0 reaches the client as 0.0.                   *)
(***************************************************************************)
C25_GivenValuesReachClient ==
    llm_call.op = "chat"
    => /\ llm_call.max_tokens =
             IF llm_call.given_max_tokens = <<>> THEN DefaultMaxOutputTokens
             ELSE llm_call.given_max_tokens[1]
       /\ llm_call.temperature =
             IF llm_call.given_temperature = <<>> THEN DefaultTemperature
             ELSE llm_call.given_temperature[1]

\* the chunks of a sliding window: starts advance by chunk_size - chunk_overlap
\* from offset 0 and the window that reaches the end of the text is the last
RECURSIVE SlidingWindow(_, _, _, _)
SlidingWindow(text, start, chunk_size, chunk_overlap) ==
    IF text = <<>> THEN <<>>
    ELSE IF start + chunk_size >= Len(text)
    THEN <<SubSeq(text, start + 1, Len(text))>>
    ELSE <<SubSeq(text, start + 1, start + chunk_size)>>
         \o SlidingWindow(text, start + chunk_size - chunk_overlap, chunk_size,
                          chunk_overlap)

(***************************************************************************)
(* C24: the chunks of a text of length L are the windows of chunk_size     *)
(* characters whose starts advance by chunk_size - chunk_overlap, only the *)
(* last one possibly shorter.                                              *)
(***************************************************************************)
C24_ChunksAreSlidingWindows ==
    split_call.pc = "done"
    => split_call.chunks = SlidingWindow(split_call.text, 0, split_call.chunk_size,
                                         split_call.chunk_overlap)

\* every stored chunk refers to an asset record that exists
ChunksReferToAssets ==
    \A p \in ProjectIds :
        \A k \in 1..Len(chunk_store[p]) : chunk_store[p][k].asset_id \in assets[p]

\* a delete_asset or delete_project_assets request answered 204 left no
\* chunk and no record of what it deleted
DeletedAssetsAreGone ==
    \A t \in Slots :
        (req[t].pc = "done" /\ req[t].signal = "204_NO_CONTENT")
        => /\ req[t].kind = "delete_asset"
              => /\ req[t].file_id \notin assets[req[t].project]
                 /\ ChunksOf(chunk_store[req[t].project], req[t].file_id) = <<>>
           /\ req[t].kind = "delete_project_assets"
              => /\ assets[req[t].project] = {}
                 /\ chunk_store[req[t].project] = <<>>

\* a step leaves the chunks and the asset records of every project other
\* than the one of the request in slot 1 as they were
OtherProjectsUnchanged ==
    \A p \in ProjectIds :
        (p # req[1].project /\ req[1].pc # "idle" /\ req'[1].project = req[1].project)
        => /\ chunk_store'[p] = chunk_store[p]
           /\ assets'[p] = assets[p]

(***************************************************************************)
(* C26: delete_asset and delete_project_assets delete the chunks before    *)
(* the asset records: at every point of the deletion every stored chunk    *)
(* refers to an existing asset record, at the end no chunk and no record   *)
(* of the deleted assets remain, and other projects are unchanged.         *)
(***************************************************************************)
C26_ChunksGoBeforeRecords ==
    /\ [](ChunksReferToAssets /\ DeletedAssetsAreGone)
    /\ [][OtherProjectsUnchanged]_vars

\* delete_project_assets answered 204 after deleting chunks, while the
\* other project still holds its chunks
C26_Witness ==
    /\ req[1].kind = "delete_project_assets"
    /\ req[1].pc = "done"
    /\ req[1].signal = "204_NO_CONTENT"
    /\ req[1].count > 0
    /\ \E p \in ProjectIds : p # req[1].project /\ chunk_store[p] # <<>>

(***************************************************************************)
(* C27: when the position-ordered pass of extract_citations ends, every    *)
(* cited index in 1..N has been emitted: the loop over                     *)
(* sorted(cited_indices) appends nothing, and the list returned is the     *)
(* list of the position-ordered pass.                                      *)
(***************************************************************************)
C27_SafetyNetAppendsNothing ==
    cite_pc = "done" =>
        LET first == OrderedPass(SortByPosition(citation_positions(response), <<>>),
                                 context_entries, {})
        IN  /\ cited_indices(response) \cap (1..Len(context_entries)) = Range(first)
            /\ RemainingPass(cited_indices(response), context_entries, Range(first)) = <<>>
            /\ ordered_citations = [k \in 1..Len(first) |-> context_entries[first[k]]]

\* two indices in range were cited, the larger one first, next to one out
\* of range
C27_Witness ==
    /\ cite_pc = "done"
    /\ Len(ordered_citations) = 2
    /\ ordered_citations[1] = context_entries[2]
    /\ ordered_citations[2] = context_entries[1]
    /\ \E i \in cited_indices(response) : i > Len(context_entries)

\* the points an index holds, none when it does not exist
PointsIn(c, name) == IF c[name].exists THEN c[name].points ELSE <<>>

\* the points s, then more
IsPrefix(s, longer) ==
    Len(s) <= Len(longer) /\ SubSeq(longer, 1, Len(s)) = s

(***************************************************************************)
(* C28: index_vectors with reset=False removes and replaces no point of    *)
(* the index, and an insert that wrote added one point per chunk to the    *)
(* points held: the same n chunks indexed twice leave 2n points.           *)
(***************************************************************************)
C28_NoResetAddsToThePoints ==
    [][\A t \in Slots :
          (Indexing(t) /\ ~req[t].reset)
          => /\ \A name \in IndexNames :
                   IsPrefix(PointsIn(collections, name), PointsIn(collections', name))
             /\ (req[t].pc = "insert_upload" /\ req'[t].wrote)
                   => Len(PointsIn(collections', IndexOf(t)))
                        = Len(PointsIn(collections, IndexOf(t))) + Len(req[t].chunks)]_vars

\* the chunks of a project were indexed a second time without reset: the
\* index holds every point twice
C28_Witness ==
    \E t \in Slots :
        LET n == Len(req[t].chunks)
            points == collections[IndexOf(t)].points
        IN  /\ req[t].kind = "index"
            /\ req[t].pc = "done"
            /\ ~req[t].reset
            /\ req[t].wrote
            /\ n > 0
            /\ Len(points) = 2 * n
            /\ \A k \in 1..n : points[k] = points[k + n]

\* an embed call of the request in slot t returned no vectors, or raised
EmbedFailed(t) ==
    \/ /\ req[t].pc \in {"insert_exists", "insert_upload", "done"}
       /\ Len(req[t].vectors) < Len(req[t].chunks)
    \/ /\ req[t].signal = "UNHANDLED_EXCEPTION"
       /\ req[t].calls[Len(req[t].calls)].op = "embed"

(***************************************************************************)
(* C29: when an embed call returns no vectors or raises during             *)
(* index_vectors(reset=True) on an index that held points, no point is     *)
(* inserted, the call does not report success, and the index exists and    *)
(* is empty: the points held before are gone.                              *)
(***************************************************************************)
C29_FailedEmbedLeavesIndexEmpty ==
    \A t \in Slots :
        (req[t].kind = "index_vectors" /\ req[t].reset /\ EmbedFailed(t))
        => /\ collection_exists(collections, IndexOf(t))
           /\ collections[IndexOf(t)].points = <<>>
           /\ ~req[t].wrote
           /\ ~IsTrue(req[t].inserted)
           /\ req[t].signal # "201_CREATED"

\* the first batch was embedded, a later one came back empty, and the call
\* returned
C29_Witness ==
    \E t \in Slots :
        /\ req[t].kind = "index_vectors"
        /\ req[t].reset
        /\ req[t].pc = "done"
        /\ req[t].signal = "returned"
        /\ Len(req[t].vectors) > 0
        /\ Len(req[t].vectors) < Len(req[t].chunks)
        /\ collections[IndexOf(t)].points = <<>>

====
